---- MODULE Spec2Model ----
(***************************************************************************)
(* State-machine model of the smash-leaderboard video pipeline:            *)
(*   - BatchVideoProcessor.extract_result_screen (batch_process_videos.py):*)
(*     the bounded, evicting sample window and the backward segment scan;  *)
(*   - YouTubeUploader._resumable_upload / upload_video                    *)
(*     (youtube_uploader.py): the chunk retry loop and the quota gate;     *)
(*   - BulkUploader.process_video / run (bulk_upload_to_youtube.py):       *)
(*     filename parsing, record lookup, skip check, upload, reference      *)
(*     write.                                                              *)
(* Confidence scores are modelled in hundredths (0.7 is 70).  Times are    *)
(* whole seconds since the epoch.                                          *)
(***************************************************************************)
EXTENDS Integers, Sequences, FiniteSets, TLC

VARIABLES
    \* ---- extract_result_screen ----
    max_frames,        \* capacity of the sample window (local, line 199)
    video,             \* the input file: readable?, frame count, fps, scores
    xpc,               \* position in extract_result_screen
    frame_count,       \* frames decoded so far
    frames,            \* window: ordinals of the stored frame copies
    scores,            \* window: confidence of the stored frames
    frame_42_image,    \* None or the ordinal of the captured early frame
    best_frame_index,  \* 0-based boundary chosen by the backward scan, -1 if none
    outcome,           \* which return statement ended the function
    ret,               \* the value returned: <<frames, frame 42, fps>>
    \* ---- YouTubeUploader (process-wide instance) ----
    youtube,           \* None or the authenticated service
    daily_upload_count,
    last_reset_date,
    default_playlist_id,
    today,             \* the local date the clock shows
    remote_videos,     \* videos the hosting service has created so far
    \* ---- one upload_video call ----
    upc,               \* position in upload_video / _resumable_upload
    job,               \* arguments of the call
    response,          \* _resumable_upload locals
    error,
    retry,
    chunk_log,         \* outcomes of the next_chunk calls of this call
    sleeps,            \* backoff sleeps of this call
    transfer_result,   \* what _resumable_upload returned or raised
    video_url,         \* what upload_video returned
    jobs_started,      \* upload_video calls made by this process
    completed_on,      \* date -> transfers this process completed on that date
    \* ---- BulkUploader ----
    store,             \* the matches table: id -> youtube_url
    directory,         \* the names in the scanned directory
    dry_run,
    skip_uploaded,
    playlist_name,
    bpc,               \* position in BulkUploader.run
    all_files,         \* the sorted list run iterates over
    next_file,         \* index of the next file of the loop
    stats,
    runs,              \* processes started so far
    history,           \* one entry per process_video call, over all runs
    utc_offset,        \* the zone of the process, Null until it is read
    faults,            \* store calls and uploads that have failed so far
    \* ---- BatchVideoProcessor ----
    batch_dry_run,
    gemini_client,     \* None or the analysis client (module level)
    video_files,       \* the sorted list process_all iterates over
    ppc,               \* position in process_all / process_video
    file_index,        \* index of the file of the current iteration
    processed_count,
    skipped_count,
    failed_count,
    matches_created,   \* match rows inserted by create_match
    batch_log,         \* one entry per iteration of process_all
    uploaded,          \* artifacts of the current file handed to the analyser
    ready,             \* those of them reported ACTIVE
    reported,          \* the state the last files.get reported
    polls,             \* polls of the current loop that found it not ready
    pauses,            \* sleeps taken between two files
    \* ---- one build_title call ----
    tpc,               \* "call" before build_title has run, "done" after
    title_match_id,    \* its arguments
    metadata,
    title,             \* the title returned
    \* ---- one save_match_stats call ----
    spc,               \* "call" before save_match_stats has run, "done" after
    save_stats,        \* its argument: the list of PlayerStats
    save_db,           \* how the database answers the inserts
    save_returned,     \* the value returned
    match_rows,        \* rows inserted into matches
    participant_rows   \* rows inserted into match_participants

xvars == <<max_frames, video, xpc, frame_count, frames, scores,
           frame_42_image, best_frame_index, outcome, ret>>

uvars == <<youtube, daily_upload_count, last_reset_date, default_playlist_id,
           today, remote_videos>>

jvars == <<upc, job, response, error, retry, chunk_log, sleeps,
           transfer_result, video_url, jobs_started>>

bvars == <<store, directory, dry_run, skip_uploaded, playlist_name, bpc,
           all_files, next_file, stats, runs, history, utc_offset,
           faults>>

hvars == <<completed_on>>

pvars == <<batch_dry_run, gemini_client, video_files, ppc, file_index,
           processed_count, skipped_count, failed_count, matches_created,
           batch_log, uploaded, ready, reported, polls, pauses>>

tvars == <<tpc, title_match_id, metadata, title>>

svars == <<spc, save_stats, save_db, save_returned, match_rows,
           participant_rows>>

vars == <<xvars, uvars, jvars, hvars, bvars, pvars, tvars, svars>>

\* Python's None: the string for optional names and flags, Null for optional
\* structured or numeric values, which are wrapped as Some(x) when present.
None == "None"
Null == [none |-> TRUE]
Some(x) == [some |-> x]

Min(a, b) == IF a <= b THEN a ELSE b

(***************************************************************************)
(* Program constants of extract_result_screen.                             *)
(***************************************************************************)
game_end_confidence_threshold == 70
frame_skip_interval == 2
code_max_frames == 3600
chunk_cap == 50
min_result_frames == 15
early_frame_ordinal == 42
default_fps == 30

(***************************************************************************)
(* Bounds of the model.                                                    *)
(***************************************************************************)
MaxSmallCap == 5       \* small window capacities 0..MaxSmallCap
MaxHot == 2            \* scored videos carry at most MaxHot bright frames
LongLen == 7306        \* frames of the long video (fills a 3600 window twice)
BrokenLen == 30        \* frames of the videos with a frame whose scoring raises
ShortLen == 36         \* frames of the longest scored video
MaxJobs == 7           \* upload_video calls per process
MaxDays == 1           \* date rollovers observed
MaxProgress == 1       \* next_chunk calls of one job that return no response
MaxFiles == 2          \* names in the scanned directory
MaxRuns == 2           \* runs of the bulk uploader over the directory
MaxFaults == 1         \* failing store calls and uploads over all runs
MaxVideos == 2         \* files in the directory of the batch processor
MaxPolls == 2          \* polls of one artifact that find it not ready
MaxPlayers == 3        \* participants of a match record
MaxParticipants == 2   \* PlayerStats entries of one analysed match

NoneTriple == <<Null, Null, Null>>

\* the values of the three failure returns (lines 181, 250, 257)
ReturnedOnUnreadable == NoneTriple
ReturnedOnNotFound == NoneTriple
ReturnedOnTooShort == NoneTriple

(***************************************************************************)
(* Inputs.  A video is [opened, n, fps, base, hot, broken]: whether the    *)
(* capture opens, how many frames decode before read() fails, the reported *)
(* fps, the bright ratio of an ordinary frame, the ratios of the few       *)
(* bright frames (ordinal -> ratio) and the ordinals of the frames whose   *)
(* scoring raises.                                                         *)
(***************************************************************************)
HotScores == {70, 71}
BaseScores == {69}

EvenOrdinals(n) == {i \in 1..n : i % 2 = 0}

RECURSIVE SmallSubsets(_, _)
SmallSubsets(S, k) ==
    IF k = 0 THEN {{}}
    ELSE LET P == SmallSubsets(S, k - 1)
         IN  P \cup {T \cup {x} : T \in P, x \in S}

HotMaps(n) ==
    UNION {[T -> HotScores] : T \in SmallSubsets(EvenOrdinals(n), MaxHot)}

ShortLengths == {0, 1, 2, BrokenLen, ShortLen}

ScoredVideos ==
    UNION {{[opened |-> TRUE, n |-> n, fps |-> 60, base |-> b, hot |-> h,
             broken |-> {}] :
              h \in HotMaps(n), b \in BaseScores} : n \in ShortLengths}

\* an unsampled frame, the first sample and a sample after it
BrokenOrdinals == {1, frame_skip_interval, 2 * frame_skip_interval}

\* videos of BrokenLen frames, at most one of them bright, with one frame
\* whose scoring raises
BrokenVideos ==
    {[v EXCEPT !.broken = {k}] :
        v \in {w \in ScoredVideos :
                 w.n = BrokenLen /\ Cardinality(DOMAIN w.hot) <= 1},
        k \in BrokenOrdinals}

PlainVideos ==
    UNION {{[opened |-> TRUE, n |-> LongLen, fps |-> 0, base |-> b,
             hot |-> (LongLen - 40 :> 71), broken |-> {}],
            [opened |-> FALSE, n |-> 0, fps |-> 0, base |-> b,
             hot |-> <<>>, broken |-> {}]} : b \in BaseScores}

Capacities == (0..MaxSmallCap) \cup {16, code_max_frames}

ExtractInputs ==
    (Capacities \X PlainVideos)
    \cup ({16, code_max_frames} \X (ScoredVideos \cup BrokenVideos))

(***************************************************************************)
(* detect_game_end: the fraction of bright pixels in the fixed region.     *)
(***************************************************************************)
\* the same without the except clause's answer: a frame whose scoring
\* raises is scored like an ordinary frame
detect_game_end_unguarded(v, ordinal) ==
    IF ordinal \in DOMAIN v.hot THEN v.hot[ordinal] ELSE v.base

\* an exception anywhere in the scoring is logged and answered with 0.0
detect_game_end(v, ordinal) ==
    IF ordinal \in v.broken THEN 0
    ELSE IF ordinal \in DOMAIN v.hot THEN v.hot[ordinal] ELSE v.base

(***************************************************************************)
(* Eviction (lines 222-225).                                               *)
(***************************************************************************)
ChunkSizeEighth(len) == Min(chunk_cap, len \div 8)

ChunkSize(len) == Min(chunk_cap, len \div 4)

DropNewest(s, k) == SubSeq(s, 1, Len(s) - k)

DropOldest(s, k) == SubSeq(s, k + 1, Len(s))

Evict(s, cap) ==
    IF Len(s) > cap THEN DropOldest(s, ChunkSize(Len(s))) ELSE s

(***************************************************************************)
(* Backward scan (lines 238-246): 0-based index of the first score, from   *)
(* the end, that passes the test; -1 when none does.  best_confidence is   *)
(* still 0.0 when the test is made, since the loop breaks on the first hit.*)
(***************************************************************************)
QualifiesStrict(confidence, best_confidence) ==
    confidence > game_end_confidence_threshold /\ confidence > best_confidence

QualifiesLoose(confidence, best_confidence) ==
    confidence >= game_end_confidence_threshold - 1 /\ confidence > best_confidence

Qualifies(confidence, best_confidence) ==
    confidence >= game_end_confidence_threshold /\ confidence > best_confidence

RECURSIVE ScanBack(_, _)
ScanBack(sc, i) ==
    IF i < 0 THEN -1
    ELSE IF Qualifies(sc[i + 1], 0) THEN i
    ELSE ScanBack(sc, i - 1)

FromIndex(s, i) == SubSeq(s, i + 1, Len(s))

LongEnoughLoose(result_frames) == Len(result_frames) >= min_result_frames - 1

LongEnough(result_frames) == Len(result_frames) >= min_result_frames

Fps(v) == IF v.fps <= 0 THEN default_fps ELSE v.fps

(***************************************************************************)
(* YouTubeUploader.  Program constants.                                    *)
(***************************************************************************)
max_retries == 3
quota_ceiling == 5

TransientStatus == {500, 502, 503, 504}

\* the statuses the model lets the service answer with
HttpStatuses == {503, 403, 404}

\* What one next_chunk call can do: return the final response (with or
\* without an id), return no response yet, raise HttpError with a status,
\* or raise another exception.
ChunkOutcomes ==
    {[kind |-> "response", has_id |-> b] : b \in BOOLEAN}
    \cup {[kind |-> "progress"]}
    \cup {[kind |-> "http_error", status |-> st] : st \in HttpStatuses}
    \cup {[kind |-> "exception"]}

IsTransientAny(o) == o.kind \in {"exception", "http_error"}

IsTransient(o) ==
    \/ o.kind = "exception"
    \/ o.kind = "http_error" /\ o.status \in TransientStatus

UrlOf(video_id) == <<"https://www.youtube.com/watch?v=", video_id>>

JobInputs ==
    [filepath_exists : BOOLEAN, playlist_name : {None, "Smash Bros Matches"}]

(***************************************************************************)
(* The uploader and the running call as one record u, so that each step of *)
(* upload_video is a function from u and the step's input to the next u.   *)
(***************************************************************************)
Cur ==
    [youtube |-> youtube, daily_upload_count |-> daily_upload_count,
     last_reset_date |-> last_reset_date,
     default_playlist_id |-> default_playlist_id,
     remote_videos |-> remote_videos, upc |-> upc, job |-> job,
     response |-> response, error |-> error, retry |-> retry,
     chunk_log |-> chunk_log, sleeps |-> sleeps,
     transfer_result |-> transfer_result, video_url |-> video_url]

Assign(u) ==
    /\ youtube' = u.youtube
    /\ daily_upload_count' = u.daily_upload_count
    /\ last_reset_date' = u.last_reset_date
    /\ default_playlist_id' = u.default_playlist_id
    /\ remote_videos' = u.remote_videos
    /\ upc' = u.upc
    /\ job' = u.job
    /\ response' = u.response
    /\ error' = u.error
    /\ retry' = u.retry
    /\ chunk_log' = u.chunk_log
    /\ sleeps' = u.sleeps
    /\ transfer_result' = u.transfer_result
    /\ video_url' = u.video_url

Holds(u) ==
    /\ youtube = u.youtube
    /\ daily_upload_count = u.daily_upload_count
    /\ last_reset_date = u.last_reset_date
    /\ default_playlist_id = u.default_playlist_id
    /\ remote_videos = u.remote_videos
    /\ upc = u.upc
    /\ job = u.job
    /\ response = u.response
    /\ error = u.error
    /\ retry = u.retry
    /\ chunk_log = u.chunk_log
    /\ sleeps = u.sleeps
    /\ transfer_result = u.transfer_result
    /\ video_url = u.video_url

\* the locals of a call that is not running
ClearLocals(u) ==
    [u EXCEPT !.job = Null, !.response = Null, !.error = None, !.retry = 0,
              !.chunk_log = <<>>, !.sleeps = 0, !.transfer_result = Null,
              !.video_url = Null]

\* YouTubeUploader.__init__ (lines 35-39) in a process started on date d
NewUploader(d, videos) ==
    ClearLocals(
      [youtube |-> None, daily_upload_count |-> 0, last_reset_date |-> d,
       default_playlist_id |-> None, remote_videos |-> videos,
       upc |-> "idle", job |-> Null, response |-> Null, error |-> None,
       retry |-> 0, chunk_log |-> <<>>, sleeps |-> 0,
       transfer_result |-> Null, video_url |-> Null])

\* no transfer has completed in this process
NoUploads == [d \in 0..MaxDays |-> 0]

\* the transfers completed by the step that leaves the uploader as u are
\* counted on the date the clock shows
Counted(u) ==
    completed_on' =
        [completed_on EXCEPT ![today] = @ + (u.remote_videos - remote_videos)]

UploaderIdle ==
    /\ today = 0
    /\ jobs_started = 0
    /\ completed_on = NoUploads
    /\ Holds(NewUploader(0, 0))

\* upload_video is entered with arguments j
EnterUpload(u, j) == [ClearLocals(u) EXCEPT !.upc = "pending", !.job = j]

\* upload_video returns v
ReturnFromUpload(u, v) == [u EXCEPT !.upc = "done", !.video_url = v]

\* the counter is compared with the ceiling and never reset on a new date
check_quota_same_day(u, date) ==
    [u |-> u, available |-> u.daily_upload_count < quota_ceiling]

\* check_quota_available (lines 100-116)
check_quota_available(u, date) ==
    LET count == IF date # u.last_reset_date THEN 0 ELSE u.daily_upload_count
    IN  [u |-> [u EXCEPT !.daily_upload_count = count,
                         !.last_reset_date = date],
         available |-> count < quota_ceiling]

\* lines 299-306: the file check and the quota gate
GateStep(u, date) ==
    IF ~u.job.filepath_exists
    THEN ReturnFromUpload(u, Null)
    ELSE LET q == check_quota_available(u, date)
         IN  IF q.available
             THEN [q.u EXCEPT !.upc = "authenticating"]
             ELSE ReturnFromUpload(q.u, Null)

\* the transfer is entered whether or not a service was obtained
AuthenticateStepUnchecked(u, ok) ==
    [u EXCEPT !.youtube = IF ok THEN "service" ELSE @,
              !.upc = "transferring", !.response = Null, !.error = None,
              !.retry = 0]

\* lines 308-349 and 394-397: authenticate when needed (ok: whether
\* get_authenticated_service yields a service), build the request, enter
\* _resumable_upload
AuthenticateStep(u, ok) ==
    IF u.youtube # None \/ ok
    THEN [u EXCEPT !.youtube = "service", !.upc = "transferring",
                   !.response = Null, !.error = None, !.retry = 0]
    ELSE ReturnFromUpload(u, Null)

\* line 420: the retry counter has passed the bound
ExhaustedEarly(r) == r >= max_retries

ExhaustedLate(r) == r > max_retries + 1

Exhausted(r) == r > max_retries

\* the counter is incremented for every transfer that returned
AfterTransferCountingAll(u, r) ==
    IF r = Null \/ ~r.has_id
    THEN ReturnFromUpload([u EXCEPT !.daily_upload_count = @ + 1], Null)
    ELSE [u EXCEPT !.daily_upload_count = @ + 1,
                   !.video_url = Some(UrlOf(r.id)),
                   !.upc = "playlist"]

\* lines 353-367 of upload_video, reached when _resumable_upload returns r
AfterTransfer(u, r) ==
    IF r = Null \/ ~r.has_id
    THEN ReturnFromUpload(u, Null)
    ELSE [u EXCEPT !.daily_upload_count = @ + 1,
                   !.video_url = Some(UrlOf(r.id)),
                   !.upc = "playlist"]

\* lines 399-422: one iteration of the retry loop, up to the sleep, when
\* next_chunk does o
NextChunkStep(u, o) ==
    LET v == [u EXCEPT !.chunk_log = Append(@, o)]
    IN  CASE o.kind = "response" /\ o.has_id ->
               \* line 404: return response
               LET r == [has_id |-> TRUE, id |-> v.remote_videos + 1]
               IN  AfterTransfer([v EXCEPT !.remote_videos = @ + 1,
                                           !.response = r,
                                           !.transfer_result = r], r)
          [] o.kind = "response" /\ ~o.has_id ->
               \* line 407: return None
               AfterTransfer([v EXCEPT !.response = [has_id |-> FALSE],
                                       !.transfer_result = Null], Null)
          [] o.kind = "http_error" /\ ~IsTransient(o) ->
               \* line 413: raise, caught at line 379
               ReturnFromUpload(
                   [v EXCEPT !.transfer_result = [raised |-> o.status]], Null)
          [] OTHER ->
               \* no response: lines 418-422 look at error, which keeps the
               \* value an earlier iteration gave it
               LET err == IF IsTransient(o) THEN "retriable" ELSE v.error
                   w == [v EXCEPT !.error = err]
               IN  IF err # None
                   THEN IF Exhausted(w.retry + 1)
                        THEN ReturnFromUpload(
                                 [w EXCEPT !.retry = @ + 1,
                                           !.transfer_result = Null], Null)
                        ELSE [w EXCEPT !.retry = @ + 1, !.upc = "retrying"]
                   ELSE w

\* lines 424-429: the backoff sleep, then the loop head
BackoffStep(u) == [u EXCEPT !.sleeps = @ + 1, !.upc = "transferring"]

\* lines 369-377: the playlist step.  get_or_create_playlist and
\* add_video_to_playlist catch HttpError only; another exception reaches
\* line 385.
PlaylistOutcomes == {"ok", "http_error", "exception"}

PlaylistStep(u, get, add) ==
    IF u.job.playlist_name = None
    THEN [u EXCEPT !.upc = "done"]
    ELSE LET need == u.default_playlist_id = None
             pid == IF ~need THEN u.default_playlist_id
                    ELSE IF get = "ok" THEN "playlist" ELSE None
         IN  IF need /\ get = "exception"
             THEN ReturnFromUpload(u, Null)
             ELSE LET w == [u EXCEPT !.default_playlist_id = pid]
                  IN  IF pid # None /\ add = "exception"
                      THEN ReturnFromUpload(w, Null)
                      ELSE [w EXCEPT !.upc = "done"]

(***************************************************************************)
(* upload_video, one action per step.                                      *)
(***************************************************************************)
Gate ==
    /\ upc = "pending"
    /\ Assign(GateStep(Cur, today))
    /\ UNCHANGED <<today, jobs_started, hvars>>

Authenticate ==
    /\ upc = "authenticating"
    /\ \E ok \in BOOLEAN : Assign(AuthenticateStep(Cur, ok))
    /\ UNCHANGED <<today, jobs_started, hvars>>

Progressed(log) ==
    Cardinality({i \in 1..Len(log) : log[i].kind = "progress"})

NextChunk ==
    /\ upc = "transferring"
    /\ response = Null /\ retry <= max_retries
    /\ \E o \in ChunkOutcomes :
         /\ o.kind = "progress" => Progressed(chunk_log) < MaxProgress
         /\ Assign(NextChunkStep(Cur, o))
         /\ Counted(NextChunkStep(Cur, o))
    /\ UNCHANGED <<today, jobs_started>>

Backoff ==
    /\ upc = "retrying"
    /\ Assign(BackoffStep(Cur))
    /\ UNCHANGED <<today, jobs_started, hvars>>

Playlist ==
    /\ upc = "playlist"
    /\ \E get \in PlaylistOutcomes, add \in PlaylistOutcomes :
         Assign(PlaylistStep(Cur, get, add))
    /\ UNCHANGED <<today, jobs_started, hvars>>

\* the local date changes
DayRollover ==
    /\ today < MaxDays
    /\ today' = today + 1
    /\ UNCHANGED <<youtube, daily_upload_count, last_reset_date,
                   default_playlist_id, remote_videos, jobs_started, hvars>>
    /\ UNCHANGED <<upc, job, response, error, retry, chunk_log, sleeps,
                   transfer_result, video_url>>

\* a caller other than the bulk uploader (lines 445-459, 479)
CallUpload ==
    /\ upc \in {"idle", "done"}
    /\ jobs_started < MaxJobs
    /\ \E j \in JobInputs : Assign(EnterUpload(Cur, j))
    /\ jobs_started' = jobs_started + 1
    /\ UNCHANGED <<today, hvars>>

(***************************************************************************)
(* upload_video as one call: the steps above run to the return, the        *)
(* service answering the next_chunk calls with env.chunks in turn.         *)
(***************************************************************************)
RECURSIVE TransferLoop(_, _, _)
TransferLoop(u, chunks, i) ==
    IF u.upc = "retrying" THEN TransferLoop(BackoffStep(u), chunks, i)
    ELSE IF u.upc = "transferring" /\ i <= Len(chunks)
    THEN TransferLoop(NextChunkStep(u, chunks[i]), chunks, i + 1)
    ELSE u

upload_video(u, j, date, env) ==
    LET u1 == GateStep(EnterUpload(u, j), date)
        u2 == IF u1.upc = "authenticating"
              THEN AuthenticateStep(u1, env.auth) ELSE u1
        u3 == TransferLoop(u2, env.chunks, 1)
    IN  IF u3.upc = "playlist" THEN PlaylistStep(u3, env.get, env.add) ELSE u3

(***************************************************************************)
(* BulkUploader.  File names are sequences of characters.                  *)
(***************************************************************************)
Digits == {"0", "1", "2", "3", "4", "5", "6", "7", "8", "9"}

DigitVal(c) ==
    CASE c = "0" -> 0 [] c = "1" -> 1 [] c = "2" -> 2 [] c = "3" -> 3
      [] c = "4" -> 4 [] c = "5" -> 5 [] c = "6" -> 6 [] c = "7" -> 7
      [] c = "8" -> 8 [] c = "9" -> 9

\* the files a directory may hold

\* "0-20240115_143052.mp4"
File_Id0 ==
    <<"0", "-", "2", "0", "2", "4", "0", "1", "1", "5", "_", "1", "4", "3", "0", "5", "2", ".", "m", "p", "4">>

\* "42-20240115_143052.mp4"
File_Id42 ==
    <<"4", "2", "-", "2", "0", "2", "4", "0", "1", "1", "5", "_", "1", "4", "3", "0", "5", "2", ".", "m", "p", "4">>

\* "20240115_143052.mp4"
File_Ts ==
    <<"2", "0", "2", "4", "0", "1", "1", "5", "_", "1", "4", "3", "0", "5", "2", ".", "m", "p", "4">>

\* "20240115_143053.mp4"
File_TsNear ==
    <<"2", "0", "2", "4", "0", "1", "1", "5", "_", "1", "4", "3", "0", "5", "3", ".", "m", "p", "4">>

\* "20240115_143100.mp4"
File_TsEdge ==
    <<"2", "0", "2", "4", "0", "1", "1", "5", "_", "1", "4", "3", "1", "0", "0", ".", "m", "p", "4">>

\* "notaname.mp4"
File_NotAName ==
    <<"n", "o", "t", "a", "n", "a", "m", "e", ".", "m", "p", "4">>

\* "20241301_000000.mp4"
File_BadDate ==
    <<"2", "0", "2", "4", "1", "3", "0", "1", "_", "0", "0", "0", "0", "0", "0", ".", "m", "p", "4">>

\* "42-20240115_143052_result_screen.mp4"
File_ResultScreen ==
    <<"4", "2", "-", "2", "0", "2", "4", "0", "1", "1", "5", "_", "1", "4", "3", "0", "5", "2", "_", "r", "e", "s", "u", "l", "t", "_", "s", "c", "r", "e", "e", "n", ".", "m", "p", "4">>


FileNames ==
    {File_Id0,
     File_Id42,
     File_Ts,
     File_TsNear,
     File_TsEdge,
     File_NotAName,
     File_BadDate,
     File_ResultScreen}

Mp4Ext == <<".", "m", "p", "4">>

\* scan_directory (lines 291-306): the names of one directory, sorted
Alphabet ==
    <<"a", "b", "c", "d", "e", "f", "g", "h", "i", "j", "k", "l", "m",
      "n", "o", "p", "q", "r", "s", "t", "u", "v", "w", "x", "y", "z">>

CharCode(c) ==
    CASE c = "-" -> 45
      [] c = "." -> 46
      [] c \in Digits -> 48 + DigitVal(c)
      [] c = "_" -> 95
      [] OTHER -> 96 + (CHOOSE i \in 1..Len(Alphabet) : Alphabet[i] = c)

RECURSIVE LexLess(_, _)
LexLess(a, b) ==
    IF b = <<>> THEN FALSE
    ELSE IF a = <<>> THEN TRUE
    ELSE IF a[1] # b[1] THEN CharCode(a[1]) < CharCode(b[1])
    ELSE LexLess(Tail(a), Tail(b))

RECURSIVE Sorted(_)
Sorted(S) ==
    IF S = {} THEN <<>>
    ELSE LET m == CHOOSE x \in S : \A y \in S \ {x} : LexLess(x, y)
         IN  <<m>> \o Sorted(S \ {m})

EndsWith(s, pat) ==
    Len(s) >= Len(pat) /\ SubSeq(s, Len(s) - Len(pat) + 1, Len(s)) = pat

Contains(s, pat) ==
    \E i \in 1..(Len(s) - Len(pat) + 1) : SubSeq(s, i, i + Len(pat) - 1) = pat

ResultScreenTag ==
    <<"r", "e", "s", "u", "l", "t", "_", "s", "c", "r", "e", "e", "n">>

scan_directory(S) ==
    Sorted({f \in S : EndsWith(f, Mp4Ext) /\ ~Contains(f, ResultScreenTag)})

Directories == SmallSubsets(FileNames, MaxFiles)

(***************************************************************************)
(* parse_filename (lines 51-80).                                           *)
(***************************************************************************)
\* str.replace(pat, ''): every occurrence, left to right
RECURSIVE RemoveAll(_, _)
RemoveAll(s, pat) ==
    IF Len(s) < Len(pat) THEN s
    ELSE IF SubSeq(s, 1, Len(pat)) = pat
    THEN RemoveAll(SubSeq(s, Len(pat) + 1, Len(s)), pat)
    ELSE <<s[1]>> \o RemoveAll(Tail(s), pat)

AllDigits(s) == \A i \in 1..Len(s) : s[i] \in Digits

RECURSIVE ToInt(_)
ToInt(s) ==
    IF s = <<>> THEN 0
    ELSE 10 * ToInt(SubSeq(s, 1, Len(s) - 1)) + DigitVal(s[Len(s)])

\* \d{8}_\d{6}
IsTimestampText(s) ==
    /\ Len(s) = 15
    /\ AllDigits(SubSeq(s, 1, 8))
    /\ s[9] = "_"
    /\ AllDigits(SubSeq(s, 10, 15))

IsLeap(y) == (y % 4 = 0 /\ y % 100 # 0) \/ y % 400 = 0

DaysInMonth(y, m) ==
    IF m = 2 THEN (IF IsLeap(y) THEN 29 ELSE 28)
    ELSE IF m \in {4, 6, 9, 11} THEN 30 ELSE 31

\* days from 1970-01-01 to the civil date y-m-d
DaysFromCivil(y, m, d) ==
    LET yy == IF m <= 2 THEN y - 1 ELSE y
        era == yy \div 400
        yoe == yy - era * 400
        mp == IF m > 2 THEN m - 3 ELSE m + 9
        doy == (153 * mp + 2) \div 5 + d - 1
        doe == yoe * 365 + yoe \div 4 - yoe \div 100 + doy
    IN  era * 146097 + doe - 719468

\* datetime.strptime(s, "%Y%m%d_%H%M%S"): the naive date-time as seconds
\* since 1970-01-01T00:00:00 of the same wall clock, or ValueError
strptime(s) ==
    LET y == ToInt(SubSeq(s, 1, 4))
        m == ToInt(SubSeq(s, 5, 6))
        d == ToInt(SubSeq(s, 7, 8))
        hh == ToInt(SubSeq(s, 10, 11))
        mi == ToInt(SubSeq(s, 12, 13))
        ss == ToInt(SubSeq(s, 14, 15))
    IN  IF /\ y >= 1
           /\ m \in 1..12
           /\ d >= 1 /\ d <= DaysInMonth(y, m)
           /\ hh <= 23 /\ mi <= 59 /\ ss <= 59
        THEN [ok |-> TRUE,
              value |-> DaysFromCivil(y, m, d) * 86400 + hh * 3600
                        + mi * 60 + ss]
        ELSE [ok |-> FALSE]

\* position of the first character that is no digit (Len + 1 when all are)
RECURSIVE FirstNonDigit(_, _)
FirstNonDigit(s, i) ==
    IF i > Len(s) \/ s[i] \notin Digits THEN i ELSE FirstNonDigit(s, i + 1)

Parsed(id, t) == [kind |-> "parsed", match_id |-> id, timestamp |-> t]

parse_filename(filename) ==
    LET base == RemoveAll(filename, Mp4Ext)
        k == FirstNonDigit(base, 1)
        rest == SubSeq(base, k + 1, Len(base))
    IN  IF k >= 2 /\ k <= Len(base) /\ base[k] = "-" /\ IsTimestampText(rest)
        THEN \* pattern 1: ^(\d+)-(\d{8}_\d{6})$
             IF strptime(rest).ok
             THEN Parsed(Some(ToInt(SubSeq(base, 1, k - 1))),
                         strptime(rest).value)
             ELSE [kind |-> "raise"]
        ELSE IF IsTimestampText(base)
        THEN \* pattern 2: ^(\d{8}_\d{6})$
             IF strptime(base).ok
             THEN Parsed(Null, strptime(base).value)
             ELSE [kind |-> "raise"]
        ELSE [kind |-> "none"]

(***************************************************************************)
(* The record store: match id -> [created_at, youtube_url].  A URL is a    *)
(* sequence, '' the empty one.                                             *)
(***************************************************************************)
EmptyStr == <<>>

EmptyStore == [id \in {} |-> Null]

T0 == strptime(SubSeq(File_Ts, 1, 15)).value

RecordIds == {0, 42}

CreatedAt(id) ==
    CASE id = 0 -> T0 - 3
      [] id = 42 -> T0 + 3

InitialUrls == {Null, Some(EmptyStr), Some(UrlOf(0))}

Stores ==
    UNION {[S -> InitialUrls] : S \in SUBSET RecordIds}

\* the orders in which the store may return rows
RowOrders ==
    {o \in [1..Cardinality(RecordIds) -> RecordIds] :
        \A i, j \in DOMAIN o : i # j => o[i] # o[j]}

\* faults of the store: which of the calls of one process_video raises
DbFaults == {"none", "find", "check", "save"}

Abs(x) == IF x < 0 THEN -x ELSE x

tolerance_seconds == 5

\* the first row returned, whatever its distance from the probe
FirstRow(rows, t, best) == best

\* min(matches, key=...): the first row with the least key
RECURSIVE FirstClosest(_, _, _)
FirstClosest(rows, t, best) ==
    IF rows = <<>> THEN best
    ELSE FirstClosest(Tail(rows), t,
             IF Abs(CreatedAt(rows[1]) - t) < Abs(CreatedAt(best) - t)
             THEN rows[1] ELSE best)

\* find_match_by_timestamp (lines 82-127): the id of the record returned
find_match_by_timestamp(st, t, order, fails) ==
    IF fails THEN Null
    ELSE LET InWindow(id) ==
                 /\ id \in DOMAIN st
                 /\ CreatedAt(id) >= t - tolerance_seconds
                 /\ CreatedAt(id) <= t + tolerance_seconds
             matches == SelectSeq(order, InWindow)
         IN  IF matches = <<>> THEN Null
             ELSE IF Len(matches) = 1 THEN Some(matches[1])
             ELSE Some(FirstClosest(Tail(matches), t, matches[1]))

\* some record of the store, whether or not it carries the id asked for
fetch_some(st, id, fails) ==
    IF fails \/ DOMAIN st = {} THEN Null
    ELSE Some(CHOOSE r \in DOMAIN st : TRUE)

\* lines 241-251: the record fetched by id
fetch_by_id(st, id, fails) ==
    IF fails \/ id \notin DOMAIN st THEN Null ELSE Some(id)

\* is_already_uploaded (lines 181-194)
is_already_uploaded(st, match_id, fails) ==
    IF match_id = Null THEN FALSE
    ELSE IF fails \/ match_id.some \notin DOMAIN st THEN FALSE
    ELSE st[match_id.some] # Null /\ st[match_id.some] # Some(EmptyStr)

\* save_youtube_url (lines 196-206)
save_youtube_url(st, id, url, fails) ==
    IF fails \/ id \notin DOMAIN st THEN st
    ELSE [st EXCEPT ![id] = Some(url)]

\* Python truth of match_id (line 254): None and 0 are false
Truthy(match_id) == match_id # Null /\ match_id.some # 0

\* int(timestamp.timestamp()) of a naive date-time in a zone off seconds
\* east of UTC
EpochSeconds(t, off) == t - off

TzOffsets == {0, 3600}

\* what the service does during one upload_video call: it takes the upload,
\* refuses it with a non-transient status, or takes it and then fails the
\* playlist lookup
EnvOk ==
    [auth |-> TRUE, chunks |-> <<[kind |-> "response", has_id |-> TRUE]>>,
     get |-> "ok", add |-> "ok"]

EnvRefused ==
    [auth |-> TRUE, chunks |-> <<[kind |-> "http_error", status |-> 403]>>,
     get |-> "ok", add |-> "ok"]

EnvPlaylistDown == [EnvOk EXCEPT !.get = "exception"]

\* authenticate() obtains no service
EnvNoAuth == [EnvOk EXCEPT !.auth = FALSE]

\* every transfer attempt meets a transient error
EnvUnavailable ==
    [EnvOk EXCEPT !.chunks =
        [i \in 1..(max_retries + 1) |-> [kind |-> "http_error", status |-> 503]]]

BulkEnvs == {EnvOk, EnvRefused, EnvPlaylistDown, EnvNoAuth, EnvUnavailable}

\* what one process_video call meets: at most one failure, of a store call
\* or of the upload
ProcessInputs ==
    {in \in [fault : DbFaults, order : RowOrders, env : BulkEnvs,
             tz : TzOffsets] : in.fault = "none" \/ in.env = EnvOk}

(***************************************************************************)
(* process_video (lines 208-289) as a function of the store st, the        *)
(* uploader u and the inputs: the counter it increments ("none" for a dry  *)
(* run, "raise" when an exception leaves it), the store and uploader it    *)
(* leaves, and what it resolved, uploaded and wrote.                       *)
(***************************************************************************)
Unresolved ==
    [match_record |-> Null, match_id |-> Null, faulted |-> FALSE]

Outcome(counter, st, u, res, had_ref, upload_id, zone, called, url, wrote, f) ==
    [counter |-> counter, store |-> st, u |-> u, match_id |-> res.match_id,
     linked |-> res.match_record # Null, had_reference |-> had_ref,
     upload_id |-> upload_id, zone_read |-> zone,
     called |-> called, url |-> url, wrote |-> wrote, faulted |-> f]

Untouched(counter, st, u) ==
    Outcome(counter, st, u, Unresolved, FALSE, Null, FALSE, FALSE, Null,
            FALSE, FALSE)

HasReference(st, id) ==
    id \in DOMAIN st /\ st[id] # Null /\ st[id] # Some(EmptyStr)

\* lines 229-251: the record and the identifier of the file
resolve(st, parsed, in) ==
    LET match_record ==
            IF parsed.match_id = Null
            THEN find_match_by_timestamp(st, parsed.timestamp, in.order,
                                         in.fault = "find")
            ELSE fetch_by_id(st, parsed.match_id.some, in.fault = "find")
    IN  [match_record |-> match_record,
         match_id |-> IF parsed.match_id = Null THEN match_record
                      ELSE parsed.match_id,
         faulted |-> in.fault = "find"]

\* a failed upload is counted with the skipped files
after_upload_lenient(st, res, had_reference, upload_id, zone_read, faulted, in, v) ==
    IF v.video_url # Null
    THEN IF res.match_record # Null
         THEN Outcome("successful",
                      save_youtube_url(st, upload_id, v.video_url.some,
                                       in.fault = "save"),
                      v, res, had_reference, Some(upload_id), zone_read,
                      TRUE, v.video_url, in.fault # "save",
                      faulted \/ in.fault = "save")
         ELSE Outcome("successful", st, v, res, had_reference,
                      Some(upload_id), zone_read, TRUE, v.video_url, FALSE,
                      faulted)
    ELSE Outcome("skipped", st, v, res, had_reference, Some(upload_id),
                 zone_read, TRUE, Null, FALSE, faulted)

\* the locator is saved under the identifier whether or not a record was
\* resolved
after_upload_saving(st, res, had_reference, upload_id, zone_read, faulted, in, v) ==
    IF v.video_url # Null
    THEN Outcome("successful",
                 save_youtube_url(st, upload_id, v.video_url.some,
                                  in.fault = "save"),
                 v, res, had_reference, Some(upload_id), zone_read,
                 TRUE, v.video_url, in.fault # "save",
                 faulted \/ in.fault = "save")
    ELSE Outcome("failed", st, v, res, had_reference, Some(upload_id),
                 zone_read, TRUE, Null, FALSE, faulted)

\* lines 277-289: v is the uploader as upload_video left it
after_upload(st, res, had_reference, upload_id, zone_read, faulted, in, v) ==
    IF v.video_url # Null
    THEN IF res.match_record # Null
         THEN Outcome("successful",
                      save_youtube_url(st, upload_id, v.video_url.some,
                                       in.fault = "save"),
                      v, res, had_reference, Some(upload_id), zone_read,
                      TRUE, v.video_url, in.fault # "save",
                      faulted \/ in.fault = "save")
         ELSE Outcome("successful", st, v, res, had_reference,
                      Some(upload_id), zone_read, TRUE, v.video_url, FALSE,
                      faulted)
    ELSE Outcome("failed", st, v, res, had_reference, Some(upload_id),
                 zone_read, TRUE, Null, FALSE, faulted)

\* lines 253-289
after_resolve(st, u, timestamp, skip, dry, playlist, date, off, in, res) ==
    LET checked == skip /\ Truthy(res.match_id)
        faulted == res.faulted \/ (checked /\ in.fault = "check")
        had_reference ==
            res.match_id # Null /\ HasReference(st, res.match_id.some)
        \* lines 260-266
        legacy == res.match_record = Null /\ res.match_id = Null
        upload_id == IF legacy THEN EpochSeconds(timestamp, off)
                     ELSE res.match_id.some
    IN  \* line 254
        IF checked /\ is_already_uploaded(st, res.match_id,
                                          in.fault = "check")
        THEN Outcome("already_uploaded", st, u, res, had_reference, Null,
                     FALSE, FALSE, Null, FALSE, faulted)
        ELSE IF dry
        THEN Outcome("none", st, u, res, had_reference, Some(upload_id),
                     legacy, FALSE, Null, FALSE, faulted)
        ELSE after_upload(st, res, had_reference, upload_id, legacy, faulted,
                 in,
                 upload_video(u, [filepath_exists |-> TRUE,
                                  playlist_name |-> playlist],
                              date, in.env))

\* lines 224-289: parsed is what parse_filename returned or raised
after_parse(st, u, parsed, skip, dry, playlist, date, off, in) ==
    IF parsed.kind = "raise" THEN Untouched("raise", st, u)
    ELSE IF parsed.kind = "none" THEN Untouched("skipped", st, u)
    ELSE after_resolve(st, u, parsed.timestamp, skip, dry, playlist,
                       date, off, in, resolve(st, parsed, in))

process_video(st, u, filename, skip, dry, playlist, date, off, in) ==
    after_parse(st, u, parse_filename(filename), skip, dry, playlist, date,
                off, in)

NewStats(n) ==
    [total_files |-> n, already_uploaded |-> 0, successful |-> 0,
     failed |-> 0, skipped |-> 0]

\* a call that raises is counted nowhere
CountReturned(s, counter) ==
    CASE counter = "already_uploaded" -> [s EXCEPT !.already_uploaded = @ + 1]
      [] counter = "successful" -> [s EXCEPT !.successful = @ + 1]
      [] counter = "failed" -> [s EXCEPT !.failed = @ + 1]
      [] counter = "skipped" -> [s EXCEPT !.skipped = @ + 1]
      [] OTHER -> s

\* the counter one process_video call adds to; line 347 adds to failed when
\* the call raises
Count(s, counter) ==
    CASE counter = "already_uploaded" -> [s EXCEPT !.already_uploaded = @ + 1]
      [] counter = "successful" -> [s EXCEPT !.successful = @ + 1]
      [] counter \in {"failed", "raise"} -> [s EXCEPT !.failed = @ + 1]
      [] counter = "skipped" -> [s EXCEPT !.skipped = @ + 1]
      [] OTHER -> s

\* no bulk uploader exists
BulkIdle ==
    /\ store = EmptyStore
    /\ directory = {}
    /\ dry_run = FALSE
    /\ skip_uploaded = TRUE
    /\ playlist_name = "Smash Bros Matches"
    /\ bpc = "absent"
    /\ all_files = <<>>
    /\ next_file = 1
    /\ stats = NewStats(0)
    /\ runs = 0
    /\ history = <<>>
    /\ utc_offset = Null
    /\ faults = 0

\* main and run, lines 308-335: a new process scans the directory
StartRun ==
    /\ bpc \in {"idle", "finished"}
    /\ runs < MaxRuns
    /\ runs' = runs + 1
    /\ all_files' = scan_directory(directory)
    /\ stats' = NewStats(Len(all_files'))
    /\ next_file' = 1
    /\ bpc' = IF all_files' = <<>> THEN "finished" ELSE "running"
    /\ Assign(NewUploader(today, remote_videos))
    /\ jobs_started' = 0
    /\ completed_on' = NoUploads
    /\ utc_offset' = Null
    /\ UNCHANGED <<today, store, directory, dry_run, skip_uploaded,
                   playlist_name, history, faults>>

\* lines 339-347: one iteration of the loop over the files
ProcessVideo ==
    /\ bpc = "running"
    /\ next_file <= Len(all_files)
    /\ \E filename \in {all_files[next_file]} :
       \E parsed \in {parse_filename(filename)}, u \in {Cur},
          in \in ProcessInputs :
         LET off == IF utc_offset = Null THEN in.tz ELSE utc_offset.some
         IN  \E r \in {after_parse(store, u, parsed, skip_uploaded, dry_run,
                                   playlist_name, today, off, in)} :
               LET failing == (IF r.faulted THEN 1 ELSE 0)
                              + (IF r.called /\ in.env # EnvOk THEN 1 ELSE 0)
               IN  /\ faults + failing <= MaxFaults
                   /\ faults' = faults + failing
                   /\ utc_offset' = IF r.zone_read THEN Some(off)
                                    ELSE utc_offset
                   /\ store' = r.store
                   /\ Assign(r.u)
                   /\ Counted(r.u)
                   /\ jobs_started' = jobs_started + (IF r.called THEN 1 ELSE 0)
                   /\ stats' = Count(stats, r.counter)
                   /\ history' = Append(history,
                          [run |-> runs, file |-> filename,
                           counter |-> r.counter, match_id |-> r.match_id,
                           linked |-> r.linked, upload_id |-> r.upload_id,
                           had_reference |-> r.had_reference,
                           called |-> r.called, url |-> r.url,
                           wrote |-> r.wrote, faulted |-> r.faulted,
                           parse |-> parsed.kind,
                           service |-> r.called /\ r.u.youtube # None,
                           log |-> IF r.called THEN r.u.chunk_log ELSE <<>>,
                           name_id |-> IF parsed.kind = "parsed"
                                       THEN parsed.match_id ELSE Null,
                           probe |-> IF parsed.kind = "parsed"
                                     THEN Some(parsed.timestamp) ELSE Null,
                           zone |-> IF r.zone_read THEN Some(off) ELSE Null,
                           dry |-> dry_run])
    /\ next_file' = next_file + 1
    /\ UNCHANGED <<today, directory, dry_run, skip_uploaded, playlist_name,
                   bpc, all_files, runs>>

\* line 350: the loop is over, print_summary
Summary ==
    /\ bpc = "running"
    /\ next_file > Len(all_files)
    /\ bpc' = "finished"
    /\ UNCHANGED <<uvars, jvars, hvars>>
    /\ UNCHANGED <<store, directory, dry_run, skip_uploaded, playlist_name,
                   all_files, next_file, stats, runs, history, utc_offset,
                   faults>>

(***************************************************************************)
(* BatchVideoProcessor.process_all, process_video, get_match_stats and     *)
(* save_match_stats (batch_process_videos.py).  A file of the directory is *)
(* described by what its processing meets: whether its creation time can   *)
(* be read, which return ends extract_result_screen, whether the early     *)
(* frame image exists, whether the result video and its slowed copy can be *)
(* written, what the analysis answers and how the store behaves.           *)
(***************************************************************************)
FileStates == {"PROCESSING", "ACTIVE", "FAILED"}

ExtractionFailures == {"unreadable", "no_frames", "not_found", "too_short"}

\* answers that save_match_stats refuses to save (lines 468-488)
RefusedAnswers == {"no_contest", "cpu", "unknown_player", "online"}

GoodFile ==
    [stat |-> "ok", extraction |-> "ok", frame_42 |-> TRUE, writer |-> "ok",
     ffmpeg |-> "ok", analysis |-> "valid", db |-> "ok"]

BatchFiles ==
    {GoodFile,
     [GoodFile EXCEPT !.stat = "raise"],
     [GoodFile EXCEPT !.frame_42 = FALSE],
     [GoodFile EXCEPT !.writer = "none"],
     [GoodFile EXCEPT !.ffmpeg = "failed"],
     [GoodFile EXCEPT !.db = "create_fails"],
     [GoodFile EXCEPT !.db = "insert_raises"]}
    \cup {[GoodFile EXCEPT !.extraction = e] : e \in ExtractionFailures}
    \cup {[GoodFile EXCEPT !.analysis = a] :
            a \in RefusedAnswers \cup {"raise", "empty"}}

VideoLists == UNION {[1..n -> BatchFiles] : n \in 0..MaxVideos}

\* save_match_stats (lines 461-582): the value returned and the match rows
\* created
save_match_stats(analysis, db) ==
    IF analysis \in RefusedAnswers THEN [success |-> FALSE, created |-> 0]
    ELSE IF db = "create_fails" THEN [success |-> FALSE, created |-> 0]
    ELSE IF db = "insert_raises" THEN [success |-> FALSE, created |-> 1]
    ELSE [success |-> TRUE, created |-> 1]

\* an extraction that returned nothing is raised as an error
before_polls_raising(f, dry, client) ==
    IF f.stat = "raise" THEN [to |-> "raise", extracted |-> FALSE]
    ELSE IF dry THEN [to |-> "true", extracted |-> FALSE]
    ELSE IF f.extraction # "ok" THEN [to |-> "raise", extracted |-> TRUE]
    ELSE IF f.writer # "ok" THEN [to |-> "false", extracted |-> TRUE]
    ELSE IF client = None THEN [to |-> "false", extracted |-> TRUE]
    ELSE IF f.ffmpeg # "ok" THEN [to |-> "false", extracted |-> TRUE]
    ELSE [to |-> "video_poll", extracted |-> TRUE]

\* the dry-run flag is not consulted
before_polls_live(f, dry, client) ==
    IF f.stat = "raise" THEN [to |-> "raise", extracted |-> FALSE]
    ELSE IF f.extraction # "ok" THEN [to |-> "false", extracted |-> TRUE]
    ELSE IF f.writer # "ok" THEN [to |-> "false", extracted |-> TRUE]
    ELSE IF client = None THEN [to |-> "false", extracted |-> TRUE]
    ELSE IF f.ffmpeg # "ok" THEN [to |-> "false", extracted |-> TRUE]
    ELSE [to |-> "video_poll", extracted |-> TRUE]

\* process_video up to the readiness polls of get_match_stats (lines 584-612
\* and 286-315): where the call goes next
before_polls(f, dry, client) ==
    IF f.stat = "raise" THEN [to |-> "raise", extracted |-> FALSE]
    ELSE IF dry THEN [to |-> "true", extracted |-> FALSE]
    ELSE IF f.extraction # "ok" THEN [to |-> "false", extracted |-> TRUE]
    ELSE IF f.writer # "ok" THEN [to |-> "false", extracted |-> TRUE]
    ELSE IF client = None THEN [to |-> "false", extracted |-> TRUE]
    ELSE IF f.ffmpeg # "ok" THEN [to |-> "false", extracted |-> TRUE]
    ELSE [to |-> "video_poll", extracted |-> TRUE]

\* no batch is in progress
BatchIdle ==
    /\ batch_dry_run = FALSE
    /\ gemini_client = None
    /\ video_files = <<>>
    /\ ppc = "idle"
    /\ file_index = 1
    /\ processed_count = 0
    /\ skipped_count = 0
    /\ failed_count = 0
    /\ matches_created = 0
    /\ batch_log = <<>>
    /\ uploaded = {}
    /\ ready = {}
    /\ reported = None
    /\ polls = 0
    /\ pauses = 0

\* lines 637-645: process_all reads the directory
BeginAll ==
    /\ ppc = "start"
    /\ ppc' = IF video_files = <<>> THEN "returned" ELSE "loop"
    /\ UNCHANGED <<batch_dry_run, gemini_client, video_files, file_index,
                   processed_count, skipped_count, failed_count,
                   matches_created, batch_log, uploaded, ready, reported,
                   polls, pauses>>

\* the count is made and the loop goes on unless process_video raised
FinishOrAbort(result, extracted, analysed, saved, created) ==
    /\ processed_count' = processed_count + (IF result = "true" THEN 1 ELSE 0)
    /\ skipped_count' = skipped_count + (IF result = "false" THEN 1 ELSE 0)
    /\ failed_count' = failed_count + (IF result = "raise" THEN 1 ELSE 0)
    /\ matches_created' = matches_created + created
    /\ batch_log' = Append(batch_log,
           [index |-> file_index, file |-> video_files[file_index],
            result |-> result, extracted |-> extracted,
            uploaded |-> uploaded, analysed |-> analysed, saved |-> saved,
            created |-> created])
    /\ pauses' = pauses + (IF ~batch_dry_run /\ file_index < Len(video_files)
                           THEN 1 ELSE 0)
    /\ file_index' = file_index + 1
    /\ ppc' = IF result = "raise" THEN "finished" ELSE "loop"
    /\ uploaded' = {}
    /\ ready' = {}
    /\ reported' = None
    /\ polls' = 0
    /\ UNCHANGED <<batch_dry_run, gemini_client, video_files>>

\* lines 650-662: process_video has returned ("true", "false") or raised; the
\* count is made, the pause taken and the loop goes to the next file
Finish(result, extracted, analysed, saved, created) ==
    /\ processed_count' = processed_count + (IF result = "true" THEN 1 ELSE 0)
    /\ skipped_count' = skipped_count + (IF result = "false" THEN 1 ELSE 0)
    /\ failed_count' = failed_count + (IF result = "raise" THEN 1 ELSE 0)
    /\ matches_created' = matches_created + created
    /\ batch_log' = Append(batch_log,
           [index |-> file_index, file |-> video_files[file_index],
            result |-> result, extracted |-> extracted,
            uploaded |-> uploaded, analysed |-> analysed, saved |-> saved,
            created |-> created])
    /\ pauses' = pauses + (IF ~batch_dry_run /\ file_index < Len(video_files)
                           THEN 1 ELSE 0)
    /\ file_index' = file_index + 1
    /\ ppc' = "loop"
    /\ uploaded' = {}
    /\ ready' = {}
    /\ reported' = None
    /\ polls' = 0
    /\ UNCHANGED <<batch_dry_run, gemini_client, video_files>>

\* lines 647-652 and 584-612, 286-315: the next file is taken
BeginVideo ==
    /\ ppc = "loop"
    /\ file_index <= Len(video_files)
    /\ LET b == before_polls(video_files[file_index], batch_dry_run,
                             gemini_client)
       IN  IF b.to = "video_poll"
           THEN /\ ppc' = "video_poll"
                /\ uploaded' = {"video"}
                /\ UNCHANGED <<batch_dry_run, gemini_client, video_files,
                               file_index, processed_count, skipped_count,
                               failed_count, matches_created, batch_log,
                               ready, reported, polls, pauses>>
           ELSE Finish(b.to, b.extracted, FALSE, FALSE, 0)

\* the readiness loop is also left when the artifact is reported FAILED
PollUntilSettled(artifact, r) ==
    IF r = "raise"
    THEN Finish("false", TRUE, FALSE, FALSE, 0)
    ELSE /\ reported' = r
         /\ IF r \in {"ACTIVE", "FAILED"}
            THEN /\ ready' = IF r = "ACTIVE" THEN ready \cup {artifact}
                             ELSE ready
                 /\ polls' = 0
                 /\ IF artifact = "video" /\ video_files[file_index].frame_42
                    THEN ppc' = "image_poll" /\ uploaded' = {"video", "image"}
                    ELSE ppc' = "analyze" /\ UNCHANGED uploaded
            ELSE /\ polls < MaxPolls
                 /\ polls' = polls + 1
                 /\ UNCHANGED <<ppc, uploaded, ready>>
         /\ UNCHANGED <<batch_dry_run, gemini_client, video_files,
                        file_index, processed_count, skipped_count,
                        failed_count, matches_created, batch_log, pauses>>

\* lines 318-322 and 329-333: one files.get of the readiness loop of an
\* artifact; it reports a state or raises
Poll(artifact, r) ==
    IF r = "raise"
    THEN Finish("false", TRUE, FALSE, FALSE, 0)
    ELSE /\ reported' = r
         /\ IF r = "ACTIVE"
            THEN /\ ready' = ready \cup {artifact}
                 /\ polls' = 0
                 /\ IF artifact = "video" /\ video_files[file_index].frame_42
                    THEN ppc' = "image_poll" /\ uploaded' = {"video", "image"}
                    ELSE ppc' = "analyze" /\ UNCHANGED uploaded
            ELSE /\ polls < MaxPolls
                 /\ polls' = polls + 1
                 /\ UNCHANGED <<ppc, uploaded, ready>>
         /\ UNCHANGED <<batch_dry_run, gemini_client, video_files,
                        file_index, processed_count, skipped_count,
                        failed_count, matches_created, batch_log, pauses>>

PollVideo ==
    /\ ppc = "video_poll"
    /\ \E r \in FileStates \cup {"raise"} : Poll("video", r)

PollImage ==
    /\ ppc = "image_poll"
    /\ \E r \in FileStates \cup {"raise"} : Poll("image", r)

\* lines 386-414 and 614-635: the analysis request, then save_match_stats
Analyze ==
    /\ ppc = "analyze"
    /\ LET f == video_files[file_index]
           s == save_match_stats(f.analysis, f.db)
       IN  IF f.analysis \in {"raise", "empty"}
           THEN Finish("false", TRUE, TRUE, FALSE, 0)
           ELSE Finish(IF s.success THEN "true" ELSE "false", TRUE, TRUE,
                       TRUE, s.created)

\* lines 664-671: the loop is over, the summary is logged
BatchSummary ==
    /\ ppc = "loop"
    /\ file_index > Len(video_files)
    /\ ppc' = "finished"
    /\ UNCHANGED <<batch_dry_run, gemini_client, video_files, file_index,
                   processed_count, skipped_count, failed_count,
                   matches_created, batch_log, uploaded, ready, reported,
                   polls, pauses>>

(***************************************************************************)
(* BatchVideoProcessor.save_match_stats on the list of PlayerStats the     *)
(* analysis returned.  Player names are sequences of characters.           *)
(***************************************************************************)
\* "Alice"
Name_Alice == <<"A", "l", "i", "c", "e">>

\* "Player 1"
Name_Player1 == <<"P", "l", "a", "y", "e", "r", " ", "1">>

\* "P2"
Name_P2 == <<"P", "2">>

\* "P 13"
Name_P_13 == <<"P", " ", "1", "3">>

\* "player 1"
Name_LowerPlayer1 == <<"p", "l", "a", "y", "e", "r", " ", "1">>

\* "Player"
Name_Player == <<"P", "l", "a", "y", "e", "r">>

NamesSeen ==
    {Name_Alice, Name_Player1, Name_P2, Name_P_13, Name_LowerPlayer1,
     Name_Player}

StartsWith(s, pat) == Len(s) >= Len(pat) /\ SubSeq(s, 1, Len(pat)) = pat

\* re.match(r"^<prefix>\d+$", s): $ also matches before a final newline
MatchesNumbered(s, prefix) ==
    /\ StartsWith(s, prefix)
    /\ LET rest == SubSeq(s, Len(prefix) + 1, Len(s))
           digits == IF rest # <<>> /\ rest[Len(rest)] = "\n"
                     THEN SubSeq(rest, 1, Len(rest) - 1) ELSE rest
       IN  digits # <<>> /\ AllDigits(digits)

\* line 481: the three patterns of a player the analysis could not name
IsUnknownPlayer(name) ==
    \/ MatchesNumbered(name, <<"P", "l", "a", "y", "e", "r", " ">>)
    \/ MatchesNumbered(name, <<"P">>)
    \/ MatchesNumbered(name, <<"P", " ">>)

PlayerStats ==
    [player_name : NamesSeen, is_cpu : BOOLEAN, has_won : BOOLEAN,
     is_online_match : BOOLEAN]

StatsLists == UNION {[1..n -> PlayerStats] : n \in 1..MaxParticipants}

DbAnswers == {"ok", "create_fails", "insert_raises"}

\* the names are not looked at
ReasonToRefuseTrustingNames(st) ==
    IF \A i \in DOMAIN st : ~st[i].has_won THEN "no_contest"
    ELSE IF \E i \in DOMAIN st : st[i].is_cpu THEN "cpu"
    ELSE IF st[1].is_online_match THEN "online"
    ELSE "valid"

\* lines 468-489: the tests made before create_match, in their order
ReasonToRefuse(st) ==
    IF \A i \in DOMAIN st : ~st[i].has_won THEN "no_contest"
    ELSE IF \E i \in DOMAIN st : st[i].is_cpu THEN "cpu"
    ELSE IF \E i \in DOMAIN st : IsUnknownPlayer(st[i].player_name)
    THEN "unknown_player"
    ELSE IF st[1].is_online_match THEN "online"
    ELSE "valid"

\* no save_match_stats call is being looked at
SaveIdle ==
    /\ spc = "idle"
    /\ save_stats = <<>>
    /\ save_db = "ok"
    /\ save_returned = Null
    /\ match_rows = 0
    /\ participant_rows = 0

\* lines 461-582: one call; a participant row follows the match row for
\* every participant unless an insert raises
SaveMatchStats ==
    /\ spc = "call"
    /\ spc' = "done"
    /\ LET r == save_match_stats(ReasonToRefuse(save_stats), save_db)
       IN  /\ save_returned' = Some(r.success)
           /\ match_rows' = r.created
           /\ participant_rows' = IF r.success THEN Len(save_stats) ELSE 0
    /\ UNCHANGED <<save_stats, save_db>>

(***************************************************************************)
(* YouTubeUploader.build_title (youtube_uploader.py).  metadata is         *)
(* [players, timestamp]; a player is [name, character], where Absent       *)
(* stands for a missing key and None for a key holding None.  A title is   *)
(* kept as its parts.                                                      *)
(***************************************************************************)
Absent == "<absent>"

PlayerNames == {"habeas", "", Absent}

Characters == {"mario", "", None}

Players == [name : PlayerNames, character : Characters]

PlayerLists == UNION {[1..n -> Players] : n \in 0..MaxPlayers}

Metadatas == [players : PlayerLists, timestamp : {Some(T0), Null}]

\* str.title() on the character names in use
TitleCase(s) ==
    CASE s = "mario" -> "Mario"
      [] s = "" -> ""

\* dict.get(key, default)
Get(value, default) == IF value = Absent THEN default ELSE value

\* Python truth of a string or None
NonEmpty(s) == s # "" /\ s # None

\* strftime("%Y-%m-%d %H:%M"): the date-time to the minute
ToTheMinute(t) == t - (t % 60)

\* lines 215-220: the timestamp-based title; without a timestamp the clock
\* is read
FallbackTitle(match_id, md) ==
    [form |-> "fallback", id |-> match_id,
     date |-> IF md.timestamp = Null THEN "now"
              ELSE ToTheMinute(md.timestamp.some)]

VersusTitle(match_id, n1, c1, n2, c2) ==
    [form |-> "versus", id |-> match_id, p1 |-> n1, c1 |-> c1, p2 |-> n2,
     c2 |-> c2]

\* the versus title is built for a record of two participants only
build_title_pairs_only(match_id, md) ==
    IF Len(md.players) = 2
    THEN LET p1 == md.players[1]
             p2 == md.players[2]
             p1_name == Get(p1.name, "Unknown")
             p2_name == Get(p2.name, "Unknown")
         IN  IF p1.character = None \/ p2.character = None
             THEN FallbackTitle(match_id, md)
             ELSE IF /\ NonEmpty(p1_name) /\ NonEmpty(p2_name)
                     /\ NonEmpty(TitleCase(p1.character))
                     /\ NonEmpty(TitleCase(p2.character))
             THEN VersusTitle(match_id, p1_name, TitleCase(p1.character),
                              p2_name, TitleCase(p2.character))
             ELSE FallbackTitle(match_id, md)
    ELSE FallbackTitle(match_id, md)

\* build_title (lines 190-220); None.title() raises and the except clause
\* leads to the fallback
build_title(match_id, md) ==
    IF Len(md.players) >= 2
    THEN LET p1 == md.players[1]
             p2 == md.players[2]
             p1_name == Get(p1.name, "Unknown")
             p2_name == Get(p2.name, "Unknown")
         IN  IF p1.character = None \/ p2.character = None
             THEN FallbackTitle(match_id, md)
             ELSE IF /\ NonEmpty(p1_name) /\ NonEmpty(p2_name)
                     /\ NonEmpty(TitleCase(p1.character))
                     /\ NonEmpty(TitleCase(p2.character))
             THEN VersusTitle(match_id, p1_name, TitleCase(p1.character),
                              p2_name, TitleCase(p2.character))
             ELSE FallbackTitle(match_id, md)
    ELSE FallbackTitle(match_id, md)

\* no title is being built
TitleIdle ==
    /\ tpc = "idle"
    /\ title_match_id = 0
    /\ metadata = Null
    /\ title = Null

BuildTitle ==
    /\ tpc = "call"
    /\ tpc' = "done"
    /\ title' = Some(build_title(title_match_id, metadata))
    /\ UNCHANGED <<title_match_id, metadata>>

(***************************************************************************)
(* extract_result_screen, one action per step.                             *)
(***************************************************************************)
InitExtract ==
    /\ \E in \in ExtractInputs : max_frames = in[1] /\ video = in[2]
    /\ xpc = "open"
    /\ frame_count = 0
    /\ frames = <<>>
    /\ scores = <<>>
    /\ frame_42_image = Null
    /\ best_frame_index = -1
    /\ outcome = "running"
    /\ ret = NoneTriple
    /\ UploaderIdle
    /\ BulkIdle
    /\ BatchIdle
    /\ TitleIdle
    /\ SaveIdle

\* lines 178-181: the capture does not open
OpenFail ==
    /\ xpc = "open"
    /\ ~video.opened
    /\ xpc' = "done"
    /\ outcome' = "unreadable"
    /\ ret' = ReturnedOnUnreadable
    /\ UNCHANGED <<max_frames, video, frame_count, frames, scores,
                   frame_42_image, best_frame_index>>

\* lines 178-199
OpenOk ==
    /\ xpc = "open"
    /\ video.opened
    /\ xpc' = "loop"
    /\ UNCHANGED <<max_frames, video, frame_count, frames, scores,
                   frame_42_image, best_frame_index, outcome, ret>>

\* lines 201-229: one iteration of the decode loop
ReadFrame ==
    /\ xpc = "loop"
    /\ frame_count < video.n
    /\ frame_count' = frame_count + 1
    /\ frame_42_image' = IF frame_count' = early_frame_ordinal
                         THEN Some(frame_count') ELSE frame_42_image
    /\ LET confidence == detect_game_end(video, frame_count')
       IN  IF frame_count' % frame_skip_interval = 0
           THEN /\ frames' = Evict(Append(frames, frame_count'), max_frames)
                /\ scores' = Evict(Append(scores, confidence), max_frames)
           ELSE UNCHANGED <<frames, scores>>
    /\ UNCHANGED <<max_frames, video, xpc, best_frame_index, outcome, ret>>

\* lines 202-204 and 231-261: read() fails, the window is scanned
EndOfVideo ==
    /\ xpc = "loop"
    /\ frame_count = video.n
    /\ xpc' = "done"
    /\ IF frames = <<>> \/ scores = <<>>
       THEN /\ outcome' = "no_frames"
            /\ ret' = NoneTriple
            /\ UNCHANGED best_frame_index
       ELSE LET best == ScanBack(scores, Len(scores) - 1)
                result_frames == FromIndex(frames, best)
            IN  /\ best_frame_index' = best
                /\ IF best = -1
                   THEN outcome' = "not_found" /\ ret' = ReturnedOnNotFound
                   ELSE IF ~LongEnough(result_frames)
                   THEN outcome' = "too_short" /\ ret' = ReturnedOnTooShort
                   ELSE /\ outcome' = "ok"
                        /\ ret' = <<Some(result_frames), frame_42_image,
                                   Some(Fps(video))>>
    /\ UNCHANGED <<max_frames, video, frame_count, frames, scores,
                   frame_42_image>>

(***************************************************************************)
(* The uploader driven directly: a process that calls upload_video up to   *)
(* MaxJobs times while the date may change.                                *)
(***************************************************************************)
ExtractIdle ==
    /\ max_frames = code_max_frames
    /\ video = Null
    /\ xpc = "idle"
    /\ frame_count = 0
    /\ frames = <<>>
    /\ scores = <<>>
    /\ frame_42_image = Null
    /\ best_frame_index = -1
    /\ outcome = "idle"
    /\ ret = NoneTriple

InitUpload ==
    ExtractIdle /\ UploaderIdle /\ BulkIdle /\ BatchIdle /\ TitleIdle
    /\ SaveIdle

NextUpload ==
    \/ CallUpload /\ UNCHANGED <<xvars, bvars, pvars, tvars, svars>>
    \/ Gate /\ UNCHANGED <<xvars, bvars, pvars, tvars, svars>>
    \/ Authenticate /\ UNCHANGED <<xvars, bvars, pvars, tvars, svars>>
    \/ NextChunk /\ UNCHANGED <<xvars, bvars, pvars, tvars, svars>>
    \/ Backoff /\ UNCHANGED <<xvars, bvars, pvars, tvars, svars>>
    \/ Playlist /\ UNCHANGED <<xvars, bvars, pvars, tvars, svars>>
    \/ DayRollover /\ UNCHANGED <<xvars, bvars, pvars, tvars, svars>>

SpecUpload == InitUpload /\ [][NextUpload]_vars

\* upload_video is sequential code: once called, each of its steps is taken
\* when it is the next one; calls and date changes come from outside
JobStep ==
    (Gate \/ Authenticate \/ NextChunk \/ Backoff \/ Playlist)
    /\ UNCHANGED <<xvars, bvars, pvars, tvars, svars>>

SpecUploadLive == SpecUpload /\ WF_vars(JobStep)

NextExtract ==
    \/ OpenFail /\ UNCHANGED <<uvars, jvars, hvars, bvars, pvars, tvars, svars>>
    \/ OpenOk /\ UNCHANGED <<uvars, jvars, hvars, bvars, pvars, tvars, svars>>
    \/ ReadFrame /\ UNCHANGED <<uvars, jvars, hvars, bvars, pvars, tvars, svars>>
    \/ EndOfVideo /\ UNCHANGED <<uvars, jvars, hvars, bvars, pvars, tvars, svars>>

SpecExtract == InitExtract /\ [][NextExtract]_vars

(***************************************************************************)
(* The bulk uploader run up to MaxRuns times, each run a new process, over *)
(* one directory and one matches table.                                    *)
(***************************************************************************)
InitBulk ==
    /\ ExtractIdle
    /\ UploaderIdle
    /\ BatchIdle
    /\ TitleIdle
    /\ SaveIdle
    /\ store \in Stores
    /\ directory \in Directories
    /\ dry_run \in BOOLEAN
    /\ skip_uploaded \in BOOLEAN
    /\ playlist_name = "Smash Bros Matches"
    /\ bpc = "idle"
    /\ all_files = <<>>
    /\ next_file = 1
    /\ stats = NewStats(0)
    /\ runs = 0
    /\ history = <<>>
    /\ utc_offset = Null
    /\ faults = 0

NextBulk ==
    \/ StartRun /\ UNCHANGED <<xvars, pvars, tvars, svars>>
    \/ ProcessVideo /\ UNCHANGED <<xvars, pvars, tvars, svars>>
    \/ Summary /\ UNCHANGED <<xvars, pvars, tvars, svars>>

SpecBulk == InitBulk /\ [][NextBulk]_vars

(***************************************************************************)
(* The batch processor: one process_all over a directory of up to          *)
(* MaxVideos files.                                                        *)
(***************************************************************************)
InitBatch ==
    /\ ExtractIdle
    /\ UploaderIdle
    /\ BulkIdle
    /\ TitleIdle
    /\ SaveIdle
    /\ batch_dry_run \in BOOLEAN
    /\ gemini_client \in {None, "client"}
    /\ video_files \in VideoLists
    /\ ppc = "start"
    /\ file_index = 1
    /\ processed_count = 0
    /\ skipped_count = 0
    /\ failed_count = 0
    /\ matches_created = 0
    /\ batch_log = <<>>
    /\ uploaded = {}
    /\ ready = {}
    /\ reported = None
    /\ polls = 0
    /\ pauses = 0

NextBatch ==
    \/ BeginAll /\ UNCHANGED <<xvars, uvars, jvars, hvars, bvars, tvars, svars>>
    \/ BeginVideo /\ UNCHANGED <<xvars, uvars, jvars, hvars, bvars, tvars, svars>>
    \/ PollVideo /\ UNCHANGED <<xvars, uvars, jvars, hvars, bvars, tvars, svars>>
    \/ PollImage /\ UNCHANGED <<xvars, uvars, jvars, hvars, bvars, tvars, svars>>
    \/ Analyze /\ UNCHANGED <<xvars, uvars, jvars, hvars, bvars, tvars, svars>>
    \/ BatchSummary /\ UNCHANGED <<xvars, uvars, jvars, hvars, bvars, tvars, svars>>

SpecBatch == InitBatch /\ [][NextBatch]_vars

(***************************************************************************)
(* build_title applied once to a match id and a metadata dict.             *)
(***************************************************************************)
InitTitle ==
    /\ ExtractIdle
    /\ UploaderIdle
    /\ BulkIdle
    /\ BatchIdle
    /\ SaveIdle
    /\ tpc = "call"
    /\ title_match_id \in RecordIds
    /\ metadata \in Metadatas
    /\ title = Null

NextTitle ==
    BuildTitle /\ UNCHANGED <<xvars, uvars, jvars, hvars, bvars, pvars, svars>>

SpecTitle == InitTitle /\ [][NextTitle]_vars

InitSave ==
    /\ ExtractIdle
    /\ UploaderIdle
    /\ BulkIdle
    /\ BatchIdle
    /\ TitleIdle
    /\ spc = "call"
    /\ save_stats \in StatsLists
    /\ save_db \in DbAnswers
    /\ save_returned = Null
    /\ match_rows = 0
    /\ participant_rows = 0

NextSave ==
    SaveMatchStats
    /\ UNCHANGED <<xvars, uvars, jvars, hvars, bvars, pvars, tvars>>

SpecSave == InitSave /\ [][NextSave]_vars

(***************************************************************************)
(* Both batch loops: a process that runs the batch processor, or processes *)
(* that run the bulk uploader.                                             *)
(***************************************************************************)
InitLoops == InitBatch \/ InitBulk

NextLoops == NextBatch \/ NextBulk

SpecLoops == InitLoops /\ [][NextLoops]_vars

(***************************************************************************)
(* Properties of the sample window and of segment selection.               *)
(***************************************************************************)
Inserted == frame_count \div frame_skip_interval   \* insertions made so far

MaxOf(S) == CHOOSE m \in S : \A x \in S : x <= m

\* 0-based window indices whose score is at least / strictly above 0.7
AtLeastIdx == {i \in 0..(Len(scores) - 1) :
                 scores[i + 1] >= game_end_confidence_threshold}
AboveIdx == {i \in 0..(Len(scores) - 1) :
               scores[i + 1] > game_end_confidence_threshold}

Rightmost(S) == IF S = {} THEN -1 ELSE MaxOf(S)

C5_WindowIsNewestSuffix ==
    Inserted > 0 =>
        /\ Len(frames) >= 1
        /\ Len(frames) <= Inserted
        /\ Len(scores) = Len(frames)
        /\ frames = [j \in 1..Len(frames) |->
                        frame_skip_interval * (Inserted - Len(frames) + j)]
        /\ scores = [j \in 1..Len(frames) |->
                        detect_game_end(video, frame_skip_interval
                                               * (Inserted - Len(frames) + j))]

\* the window has lost its oldest entries and a sample was just inserted
C5_Witness ==
    /\ xpc = "loop"
    /\ Len(frames) >= 1
    /\ Len(frames) < Inserted
    /\ frames[Len(frames)] = frame_count

C7_TooShortNeverGuessed ==
    xpc = "done" =>
        /\ (AtLeastIdx # {} /\ Len(frames) - Rightmost(AtLeastIdx) < 15) =>
               (outcome = "too_short" /\ ret = NoneTriple)
        /\ outcome = "ok" =>
               /\ Len(ret[1].some) >= 15
               /\ Len(ret[1].some) <= Len(frames)
               /\ ret[1].some = SubSeq(frames,
                                       Len(frames) - Len(ret[1].some) + 1,
                                       Len(frames))

\* 'too short' although an earlier qualifying index had 15 samples after it
C7_Witness ==
    /\ xpc = "done"
    /\ outcome = "too_short"
    /\ \E i \in AtLeastIdx : Len(frames) - i >= 15

\* C8: a non-empty window without a qualifying score ends in 'not found':
\* no boundary, no segment.
C8_NotFoundWhenNoneQualifies ==
    (xpc = "done" /\ outcome # "unreadable" /\ Len(scores) > 0
        /\ \A i \in 1..Len(scores) : scores[i] < 70) =>
        (outcome = "not_found" /\ best_frame_index = -1 /\ ret = NoneTriple)

\* the scan went over a non-empty window and found nothing
C8_Witness ==
    /\ xpc = "done"
    /\ outcome = "not_found"
    /\ Len(scores) >= 15

\* C9 (as stated): the value returned tells 'not found', 'too short' and an
\* unreadable video apart.
C9_FailuresDistinctByValue ==
    xpc = "done" =>
        /\ outcome = "not_found" =>
              ret \notin {ReturnedOnUnreadable, ReturnedOnTooShort}
        /\ outcome = "too_short" =>
              ret \notin {ReturnedOnUnreadable, ReturnedOnNotFound}

(***************************************************************************)
(* Properties of the retry loop.                                           *)
(***************************************************************************)
Failures(log) == {i \in 1..Len(log) :
                    \/ log[i].kind = "exception"
                    \/ log[i].kind = "http_error"
                         /\ log[i].status \in {500, 502, 503, 504}}

Successes(log) == {i \in 1..Len(log) :
                     log[i].kind = "response" /\ log[i].has_id}

\* the calls so far were k transient failures, nothing else
OnlyFailures(log) == Failures(log) = 1..Len(log)

\* the calls so far were k transient failures and then one success
FailuresThenSuccess(log) ==
    /\ Len(log) >= 1
    /\ Failures(log) = 1..(Len(log) - 1)
    /\ Successes(log) = {Len(log)}

\* C10: when the first k <= 3 transfer attempts fail with a transient error
\* and the next one succeeds, exactly k + 1 attempts are made and the
\* transfer ends with exactly one success: the job never gives up after k
\* failures, sleeps once per failure, makes no attempt after the success,
\* and the success is counted once.
C10_RetriesThenOneSuccess ==
    /\ (upc # "idle" /\ OnlyFailures(chunk_log) /\ Len(chunk_log) <= 3
          /\ Len(chunk_log) >= 1) =>
          (upc \in {"retrying", "transferring"} /\ transfer_result = Null)
    /\ (upc # "idle" /\ FailuresThenSuccess(chunk_log)
          /\ Len(chunk_log) - 1 <= 3) =>
          /\ upc \in {"playlist", "done"}
          /\ transfer_result = [has_id |-> TRUE, id |-> remote_videos]
          /\ sleeps = Len(chunk_log) - 1
    /\ \A i \in Successes(chunk_log) : i = Len(chunk_log)

\* two transient failures, then success on the third attempt
C10_Witness ==
    /\ upc = "done"
    /\ Len(chunk_log) = 3
    /\ FailuresThenSuccess(chunk_log)
    /\ video_url = Some(UrlOf(remote_videos))

(***************************************************************************)
(* Properties of BulkUploader.run over several runs.                       *)
(***************************************************************************)
Calls == DOMAIN history

\* no store call and no upload has failed so far
NoFailure == faults = 0

\* C1: with skip_uploaded set, a file whose upload succeeded in an earlier
\* run is not uploaded again by a later run over the same directory, and the
\* later run writes no youtube_url for it (stated for runs in which no store
\* call and no upload fails).
C1_NoUploadAfterSuccess ==
    (skip_uploaded /\ NoFailure) =>
        \A i \in Calls, j \in Calls :
            (/\ history[i].run < history[j].run
             /\ history[i].file = history[j].file
             /\ history[i].counter = "successful")
            => (~history[j].called /\ ~history[j].wrote)

\* C2: with skip_uploaded set, a process_video call whose resolved match
\* identifier (from the filename or from the timestamp lookup) belongs to a
\* record that already has a non-empty youtube_url makes no upload call and
\* increments already_uploaded only (stated for calls in which no store call
\* fails).
C2_SkipWhenReferenced ==
    skip_uploaded =>
        \A i \in Calls :
            (/\ history[i].match_id # Null
             /\ history[i].had_reference
             /\ ~history[i].faulted)
            => (history[i].counter = "already_uploaded" /\ ~history[i].called)

\* the calls that wrote the youtube_url of record id
WritesTo(id) ==
    {i \in Calls : history[i].wrote /\ history[i].upload_id = Some(id)}

\* C3: with skip_uploaded set, the youtube_url of a record is written exactly
\* once: a successful upload of a call linked to the record writes it, no call
\* writes a record that already holds a non-empty youtube_url, and no record
\* is written twice (stated for runs in which no store call and no upload
\* fails).
C3_ReferenceWrittenOnce ==
    (skip_uploaded /\ NoFailure) =>
        /\ \A i \in Calls :
              /\ (history[i].counter = "successful" /\ history[i].linked)
                 => history[i].wrote
              /\ history[i].had_reference => ~history[i].wrote
        /\ \A id \in RecordIds : Cardinality(WritesTo(id)) <= 1

(***************************************************************************)
(* Properties of the retry loop and of the job as a whole.                 *)
(***************************************************************************)
\* the first n calls of the log
FirstCalls(log, n) == SubSeq(log, 1, Min(n, Len(log)))

\* C11: a job whose first 4 transfer attempts fail with a transient error
\* ends in failure at the 4th failure, after exactly 3 retries (3 backoff
\* sleeps), and makes no 5th attempt; a job with 3 or fewer such failures
\* and nothing else has not given up.
C11_FourFailuresThenTerminal ==
    /\ (/\ upc # "idle"
        /\ Len(chunk_log) >= max_retries + 1
        /\ OnlyFailures(FirstCalls(chunk_log, max_retries + 1))) =>
          /\ Len(chunk_log) = max_retries + 1
          /\ upc = "done"
          /\ video_url = Null
          /\ transfer_result = Null
          /\ sleeps = max_retries
          /\ retry = max_retries + 1
    /\ (/\ upc # "idle"
        /\ Len(chunk_log) \in 1..max_retries
        /\ OnlyFailures(chunk_log)) => upc # "done"

\* four transient failures in a row have ended the job
C11_Witness ==
    /\ upc = "done"
    /\ Len(chunk_log) = max_retries + 1
    /\ OnlyFailures(chunk_log)
    /\ sleeps = max_retries
    /\ video_url = Null

\* C12 (as stated): one job makes at most 3 transfer attempts (stated for
\* jobs whose next_chunk calls all end with a response or an error).
C12_AttemptsAtMostThree ==
    (upc # "idle" /\ Progressed(chunk_log) = 0) =>
        Len(chunk_log) <= max_retries

\* C12 (amended): one job makes at most 3 retries (backoff sleeps), so at most
\* 4 of its transfer attempts end with a response or an error: the first
\* attempt and 3 retries.
C12_RetriesAtMostThree ==
    upc # "idle" =>
        /\ sleeps <= max_retries
        /\ retry <= max_retries + 1
        /\ Cardinality(Failures(chunk_log)) <= max_retries + 1
        /\ Len(chunk_log) - Progressed(chunk_log) <= max_retries + 1

\* a 4th attempt, made after 3 transient failures and 3 sleeps, has succeeded
C12_Witness ==
    /\ upc = "done"
    /\ Len(chunk_log) = max_retries + 1
    /\ FailuresThenSuccess(chunk_log)
    /\ sleeps = max_retries
    /\ video_url # Null

\* the calls that raised an HttpError with a status outside 500/502/503/504
NonTransient(log) ==
    {i \in 1..Len(log) :
        log[i].kind = "http_error" /\ log[i].status \notin TransientStatus}

\* C13: a transfer attempt that fails with a non-transient HTTP error is the
\* last attempt of its job: the job is over at once with no locator, the
\* error is the exception _resumable_upload raised, and neither the retry
\* counter nor the sleep count moved for it.
C13_NonTransientFailsAtOnce ==
    upc # "idle" =>
        \A i \in NonTransient(chunk_log) :
            /\ i = Len(chunk_log)
            /\ upc = "done"
            /\ video_url = Null
            /\ transfer_result = [raised |-> chunk_log[i].status]
            /\ retry <= i - 1
            /\ sleeps = retry

\* a 403 on the attempt after one transient failure has ended the job
C13_Witness ==
    /\ upc = "done"
    /\ Len(chunk_log) = 2
    /\ Failures(chunk_log) = {1}
    /\ NonTransient(chunk_log) = {2}
    /\ chunk_log[2].status = 403
    /\ sleeps = 1

\* The state of the running job in the terms of the state machine.  The
\* playlist step runs between the end of the transfer and the return, and is
\* counted with TRANSFERRING; the job has SUCCEEDED or FAILED when
\* upload_video has returned a locator or None.
JobState ==
    CASE upc = "idle" -> "NONE"
      [] upc = "pending" -> "PENDING"
      [] upc = "authenticating" -> "AUTHENTICATING"
      [] upc \in {"transferring", "playlist"} -> "TRANSFERRING"
      [] upc = "retrying" -> "RETRYING"
      [] upc = "done" /\ video_url # Null -> "SUCCEEDED"
      [] upc = "done" /\ video_url = Null -> "FAILED"

JobEdges ==
    {<<"PENDING", "AUTHENTICATING">>, <<"PENDING", "FAILED">>,
     <<"AUTHENTICATING", "TRANSFERRING">>, <<"AUTHENTICATING", "FAILED">>,
     <<"TRANSFERRING", "RETRYING">>, <<"TRANSFERRING", "SUCCEEDED">>,
     <<"TRANSFERRING", "FAILED">>,
     <<"RETRYING", "TRANSFERRING">>, <<"RETRYING", "FAILED">>}

\* C14: while one job runs, its state changes only along PENDING ->
\* AUTHENTICATING -> TRANSFERRING -> (RETRYING <-> TRANSFERRING) -> SUCCEEDED
\* or FAILED, where FAILED can be entered from every earlier state: RETRYING
\* is entered only from TRANSFERRING and left only to TRANSFERRING or FAILED,
\* SUCCEEDED and FAILED are never left, and a transfer attempt is made only
\* in TRANSFERRING with an authenticated service.
C14_JobStateMachine ==
    [][jobs_started' = jobs_started =>
         /\ JobState' = JobState \/ <<JobState, JobState'>> \in JobEdges
         /\ chunk_log' # chunk_log =>
              (JobState = "TRANSFERRING" /\ youtube # None)]_vars

\* a job has gone through RETRYING and back and has succeeded
C14_Witness ==
    /\ JobState = "SUCCEEDED"
    /\ sleeps >= 1
    /\ Len(chunk_log) >= 2

\* C15: within one process and one local date the number of successful
\* uploads never exceeds the ceiling of 5, and while the counter stands at 5
\* no job is past the quota gate (none is authenticating or transferring).
C15_AtMostFivePerDate ==
    /\ \A d \in 0..MaxDays : completed_on[d] <= quota_ceiling
    /\ (upc \in {"authenticating", "transferring", "retrying"}
          => daily_upload_count < quota_ceiling)

\* C16: the quota check of a job (the step that takes it out of "pending")
\* made on a local date other than the last reset date sets the counter to
\* 0, records the new date and admits the job; the counter never decreases
\* and the reset date never changes in any other step, so there is no reset
\* while the date is unchanged.
C16_ResetAtRollover ==
    [][/\ ((upc = "pending" /\ upc' # "pending" /\ job.filepath_exists
              /\ today # last_reset_date)
             => (/\ daily_upload_count' = 0
                 /\ last_reset_date' = today
                 /\ upc' = "authenticating"))
       /\ ((daily_upload_count' < daily_upload_count
              \/ last_reset_date' # last_reset_date)
             => (/\ upc = "pending"
                 /\ today # last_reset_date
                 /\ last_reset_date' = today))]_vars

\* five uploads completed on date 0, which filled the counter, and a job is
\* past the gate on date 1 with the counter back at 0
C16_Witness ==
    /\ completed_on[0] = quota_ceiling
    /\ today = 1
    /\ last_reset_date = 1
    /\ daily_upload_count = 0
    /\ upc = "authenticating"

\* the records of the store within the tolerance window of probe t
InWindowOf(t) ==
    {id \in DOMAIN store : Abs(CreatedAt(id) - t) <= tolerance_seconds}

\* the calls that went through the timestamp lookup: the file name carries a
\* timestamp and no match id, and the lookup did not fail
Lookups ==
    {i \in Calls : /\ history[i].probe # Null
                   /\ history[i].name_id = Null
                   /\ ~(history[i].faulted /\ history[i].match_id = Null)}

\* C17: with two records of the store equidistant from the probe timestamp
\* and both within the tolerance, every timestamp lookup of that probe
\* resolves to the same record, whatever the order of the rows returned.
C17_TieResolvedAlike ==
    \A i \in Lookups, j \in Lookups :
        LET t == history[i].probe.some
        IN  (/\ history[j].probe = history[i].probe
             /\ \E a \in InWindowOf(t), b \in InWindowOf(t) :
                    /\ a # b
                    /\ Abs(CreatedAt(a) - t) = Abs(CreatedAt(b) - t))
            => history[i].match_id = history[j].match_id

\* C18: for a file without a match id, the record chosen by the timestamp
\* lookup has its timestamp within 5 s of the probe (bounds included) and no
\* record of the window is closer to the probe; when the window holds exactly
\* one record that record is chosen, and a record is chosen whenever the
\* window is not empty.
C18_ChosenIsClosestInWindow ==
    \A i \in Lookups :
        LET t == history[i].probe.some
            chosen == history[i].match_id
        IN  /\ chosen # Null
              => /\ chosen.some \in InWindowOf(t)
                 /\ \A id \in InWindowOf(t) :
                        Abs(CreatedAt(chosen.some) - t)
                            <= Abs(CreatedAt(id) - t)
            /\ \A id \in InWindowOf(t) :
                   InWindowOf(t) = {id} => chosen = Some(id)
            /\ InWindowOf(t) # {} => chosen # Null

\* a lookup with two records in the window at different distances chose the
\* closer one, and a lookup chose a record exactly 5 s away from its probe
C18_Witness ==
    /\ \E i \in Lookups :
           /\ Cardinality(InWindowOf(history[i].probe.some)) = 2
           /\ history[i].match_id = Some(42)
           /\ Abs(CreatedAt(0) - history[i].probe.some)
                  > Abs(CreatedAt(42) - history[i].probe.some)
    /\ \E i \in Lookups :
           /\ history[i].match_id # Null
           /\ Abs(CreatedAt(history[i].match_id.some) - history[i].probe.some)
                  = tolerance_seconds

\* the calls for a file without a match id whose timestamp lookup gave no
\* record
Unlinked ==
    {i \in Calls : /\ history[i].probe # Null
                   /\ history[i].name_id = Null
                   /\ history[i].match_id = Null}

\* C19: a file without a match id whose timestamp lookup returns no record is
\* treated as unlinked: it gets an identifier made from the filename
\* timestamp, the same on every call for the same file name; the call is not
\* skipped and, unless the run is a dry run, goes on to upload_video.
C19_UnlinkedSameIdentifier ==
    \A i \in Unlinked :
        /\ ~history[i].linked
        /\ history[i].upload_id # Null
        /\ history[i].counter \notin {"skipped", "already_uploaded", "raise"}
        /\ history[i].called = ~history[i].dry
        /\ \A j \in Unlinked :
               history[j].file = history[i].file
                   => history[j].upload_id = history[i].upload_id

\* the calls for a file whose name carries a match id
Named == {i \in Calls : history[i].name_id # Null}

\* C20: when the file name carries a match id, the record is fetched by that
\* id and by nothing else: the call is linked only to the record of that id,
\* also when other records lie within the tolerance of its timestamp, no
\* identifier is made from the timestamp, and the identifier of the skip
\* check, of the upload and of the youtube_url write is the id of the file
\* name.
C20_FilenameIdentifierUsed ==
    \A i \in Named :
        LET n == history[i].name_id.some
        IN  /\ history[i].match_id = Some(n)
            /\ history[i].linked => n \in DOMAIN store
            /\ n \notin DOMAIN store => ~history[i].wrote
            /\ history[i].zone = Null
            /\ history[i].upload_id \in {Null, Some(n)}
            /\ history[i].called \/ history[i].wrote
                 => history[i].upload_id = Some(n)
            /\ history[i].counter = "already_uploaded"
                 => n \in DOMAIN store /\ history[i].had_reference
            /\ (i = Len(history) /\ history[i].wrote)
                 => store[n] = history[i].url

\* a file named after an id without a record stayed unlinked although a
\* record lies within the tolerance of its timestamp, and the last call, for
\* a file named after record 42, uploaded and wrote the youtube_url of 42
C20_Witness ==
    /\ \E i \in Named :
           /\ history[i].name_id.some \notin DOMAIN store
           /\ InWindowOf(history[i].probe.some) # {}
           /\ ~history[i].linked
           /\ history[i].called
    /\ Len(history) \in Named
    /\ history[Len(history)].name_id = Some(42)
    /\ history[Len(history)].wrote
    /\ store[42] = history[Len(history)].url

\* C21: parse_filename maps <digits>-<YYYYMMDD>_<HHMMSS>.mp4 to the integer
\* and the date-time, <YYYYMMDD>_<HHMMSS>.mp4 to no match id and the
\* date-time, and every other name to "unparseable" (None): it always
\* returns one of the two; 42-20240115_143052.mp4 gives 42 and
\* 2024-01-15T14:30:52 (1705329052 s after 1970-01-01T00:00:00).
C21_ParseFilenameTotal ==
    \A i \in Calls :
        LET h == history[i]
        IN  /\ h.parse \in {"parsed", "none"}
            /\ h.file = File_Id42
                 => h.name_id = Some(42) /\ h.probe = Some(1705329052)
            /\ h.file = File_Id0
                 => h.name_id = Some(0) /\ h.probe = Some(1705329052)
            /\ h.file = File_Ts
                 => /\ h.parse = "parsed"
                    /\ h.name_id = Null
                    /\ h.probe = Some(1705329052)
            /\ h.file = File_TsEdge
                 => h.name_id = Null /\ h.probe = Some(1705329060)
            /\ h.file \in {File_NotAName, File_BadDate} => h.parse = "none"

\* C22: a file whose name does not denote a valid (matchId, timestamp) or
\* (timestamp) pair is skipped: the call adds to the skipped counter only,
\* not to failed, resolves no record, calls no upload and writes nothing.
C22_InvalidNameSkipped ==
    \A i \in Calls :
        history[i].parse # "parsed"
            => /\ history[i].counter = "skipped"
               /\ history[i].match_id = Null
               /\ ~history[i].linked
               /\ ~history[i].called
               /\ ~history[i].wrote
               /\ ~history[i].faulted

(***************************************************************************)
(* Properties of the two batch loops.                                      *)
(***************************************************************************)
\* the process_video calls of the current run of the bulk uploader
CallsOfRun ==
    LET InRun(h) == h.run = runs
    IN  SelectSeq(history, InRun)

\* C23: in process_all and in BulkUploader.run every file of the list is
\* attempted exactly once, in list order, whatever the outcome of the files
\* before it (an exception included), each attempt is counted once, and the
\* loop is over (the summary follows) only after the last file.
C23_BatchNeverAborted ==
    /\ ppc \in {"loop", "video_poll", "image_poll", "analyze", "finished"}
         => /\ Len(batch_log) = file_index - 1
            /\ \A k \in DOMAIN batch_log :
                   /\ batch_log[k].index = k
                   /\ batch_log[k].file = video_files[k]
            /\ processed_count + skipped_count + failed_count
                 = Len(batch_log)
    /\ ppc = "finished" => Len(batch_log) = Len(video_files)
    /\ bpc \in {"running", "finished"}
         => /\ Len(CallsOfRun) = next_file - 1
            /\ \A k \in DOMAIN CallsOfRun : CallsOfRun[k].file = all_files[k]
            /\ stats.already_uploaded + stats.successful + stats.failed
                 + stats.skipped
                 = Cardinality({k \in DOMAIN CallsOfRun :
                                    CallsOfRun[k].counter # "none"})
    /\ bpc = "finished" => Len(CallsOfRun) = Len(all_files)

\* process_all is over: the first file raised and was counted failed, the
\* second was processed
C23_Witness ==
    /\ ppc = "finished"
    /\ Len(batch_log) = 2
    /\ batch_log[1].result = "raise"
    /\ batch_log[2].result = "true"
    /\ failed_count = 1
    /\ processed_count = 1

\* the iterations that went as far as extract_result_screen
Extractions == {k \in DOMAIN batch_log : batch_log[k].extracted}

\* C24: a video that cannot be opened or decoded is counted in failed_count,
\* not in skipped_count or processed_count.
C24_UnreadableCountedFailed ==
    /\ \A k \in Extractions :
           batch_log[k].file.extraction \in {"unreadable", "no_frames"}
               => batch_log[k].result = "raise"
    /\ failed_count
         >= Cardinality({k \in Extractions :
                batch_log[k].file.extraction \in {"unreadable", "no_frames"}})

\* the iterations whose stats extraction failed: get_match_stats was entered
\* and returned nothing
StatsFailures ==
    {k \in Extractions :
        LET h == batch_log[k]
        IN  /\ h.file.extraction = "ok"
            /\ h.file.writer = "ok"
            /\ \/ gemini_client = None
               \/ h.file.ffmpeg # "ok"
               \/ h.uploaded # {} /\ ~h.analysed
               \/ h.analysed /\ h.file.analysis \in {"raise", "empty"}}

\* the iterations whose result segment was not found or was too short
SegmentFailures ==
    {k \in Extractions :
        batch_log[k].file.extraction \in {"not_found", "too_short"}}

\* C25: a file whose result segment is not found or too short, or whose
\* stats extraction fails, is counted in skipped_count and not in
\* failed_count; save_match_stats is not called and no match row is created
\* for it.
C25_NoSegmentOrStatsSkipped ==
    /\ \A k \in SegmentFailures \cup StatsFailures :
           /\ batch_log[k].result = "false"
           /\ ~batch_log[k].saved
           /\ batch_log[k].created = 0
    /\ skipped_count
         = Cardinality({k \in DOMAIN batch_log : batch_log[k].result = "false"})
    /\ failed_count
         = Cardinality({k \in DOMAIN batch_log : batch_log[k].result = "raise"})
    /\ (\A k \in DOMAIN batch_log :
            k \in SegmentFailures \cup StatsFailures)
         => matches_created = 0 /\ failed_count = 0

\* process_all is over: the segment of the first file was too short, the
\* analysis of the second raised after both artifacts were ready; both are
\* counted skipped and no match row exists
C25_Witness ==
    /\ ppc = "finished"
    /\ Len(batch_log) = 2
    /\ batch_log[1].file.extraction = "too_short"
    /\ batch_log[2].file.analysis = "raise"
    /\ batch_log[2].analysed
    /\ batch_log[2].uploaded = {"video", "image"}
    /\ skipped_count = 2
    /\ failed_count = 0
    /\ matches_created = 0

\* C30: in dry-run mode BulkUploader.process_video makes no upload_video call
\* and no youtube_url write (the store and the hosting service stay as they
\* are), and BatchVideoProcessor.process_video returns before extraction,
\* before the analysis and before save_match_stats (no artifact is uploaded,
\* no match row is created).
C30_DryRunDoesNothing ==
    [][/\ dry_run
            => /\ store' = store
               /\ remote_videos' = remote_videos
               /\ jobs_started' = 0
               /\ \A i \in DOMAIN history' :
                      ~history'[i].called /\ ~history'[i].wrote
       /\ batch_dry_run
            => /\ matches_created' = matches_created
               /\ ppc' \notin {"video_poll", "image_poll", "analyze"}
               /\ uploaded' = {}
               /\ \A k \in DOMAIN batch_log' :
                      /\ ~batch_log'[k].extracted
                      /\ ~batch_log'[k].analysed
                      /\ ~batch_log'[k].saved
                      /\ batch_log'[k].result \in {"true", "raise"}]_vars

\* a dry run of the bulk uploader is over: a file linked to a record without
\* youtube_url, which a real run would upload and write, was neither
\* uploaded nor written
C30_Witness ==
    /\ dry_run
    /\ bpc = "finished"
    /\ \E i \in Calls :
           /\ history[i].linked
           /\ ~history[i].had_reference
           /\ history[i].counter = "none"
           /\ history[i].upload_id # Null
    /\ remote_videos = 0

\* the calls whose upload job ended FAILED: upload_video was called and
\* returned None
FailedJobs == {i \in Calls : history[i].called /\ history[i].url = Null}

\* the calls after i and before j that wrote the youtube_url of record id
WritesBetween(i, j, id) ==
    {k \in WritesTo(id) : i < k /\ k < j}

\* C26: an upload job that ends FAILED writes no youtube_url (the store is
\* left as it was) and is counted failed; in the next run the same file,
\* resolved to the same record, is not skipped on account of that job: unless
\* another call has written the record meanwhile, upload_video is called for
\* it again.
C26_FailedJobLeavesNoReference ==
    [][/\ Len(history') > Len(history)
            => LET h == history'[Len(history')]
               IN  (h.called /\ h.url = Null)
                       => /\ store' = store
                          /\ ~h.wrote
                          /\ h.counter = "failed"
                          /\ stats' = [stats EXCEPT !.failed = @ + 1]
       /\ \A i \in FailedJobs, j \in Calls :
              (/\ history[j].run = history[i].run + 1
               /\ history[j].file = history[i].file
               /\ history[j].match_id = history[i].match_id
               /\ \/ history[i].match_id = Null
                  \/ WritesBetween(i, j, history[i].match_id.some) = {})
              => /\ history[j].called
                 /\ history[j].counter # "already_uploaded"]_vars

\* the job of a linked file gave up after four transient errors and wrote
\* nothing; the next run uploaded the file and wrote its youtube_url
C26_Witness ==
    \E i \in FailedJobs, j \in Calls :
        /\ Len(history[i].log) = max_retries + 1
        /\ history[i].linked
        /\ history[i].counter = "failed"
        /\ history[j].run = history[i].run + 1
        /\ history[j].file = history[i].file
        /\ history[j].counter = "successful"
        /\ history[j].wrote
        /\ store[history[j].upload_id.some] = history[j].url

(***************************************************************************)
(* Properties of build_title.                                              *)
(***************************************************************************)
\* participant k of the metadata has a name and a character that are not
\* empty (a missing name reads 'Unknown')
Named2(k) ==
    /\ metadata.players[k].name # ""
    /\ metadata.players[k].character \notin {"", None}

\* C27 (as stated): build_title yields the versus title exactly when the
\* record has two participants, both with non-empty name and character; for
\* every other participant count (0, 1, 3 or more) the fallback title is
\* used.
C27_VersusIffTwoParticipants ==
    tpc = "done" =>
        (title.some.form = "versus"
            <=> (Len(metadata.players) = 2 /\ Named2(1) /\ Named2(2)))

\* C27 (amended): build_title yields the versus title, made of the names and
\* title-cased characters of the first two participants and of the match id,
\* exactly when the record has at least two participants and the first two
\* have non-empty names and characters; otherwise, and so for 0 or 1
\* participant, it yields the fallback title made of the match id and the
\* timestamp to the minute.
C27_VersusIffFirstTwoNamed ==
    tpc = "done" =>
        IF Len(metadata.players) >= 2 /\ Named2(1) /\ Named2(2)
        THEN /\ title.some.form = "versus"
             /\ title.some.id = title_match_id
             /\ title.some.p1 \in {metadata.players[1].name, "Unknown"}
             /\ title.some.p2 \in {metadata.players[2].name, "Unknown"}
             /\ title.some.p1 # Absent /\ title.some.p2 # Absent
             /\ title.some.c1 = "Mario" /\ title.some.c2 = "Mario"
        ELSE /\ title.some.form = "fallback"
             /\ title.some.id = title_match_id
             /\ metadata.timestamp # Null
                  => /\ title.some.date <= metadata.timestamp.some
                     /\ title.some.date > metadata.timestamp.some - 60
                     /\ title.some.date % 60 = 0

\* a record of three participants got the versus title of its first two
C27_Witness ==
    /\ tpc = "done"
    /\ Len(metadata.players) = 3
    /\ title.some.form = "versus"
    /\ title.some.p1 = "habeas"
    /\ title.some.p2 = "Unknown"
    /\ title.some.id = 42

(***************************************************************************)
(* Properties of the readiness polls of get_match_stats.                   *)
(***************************************************************************)
Polling == ppc \in {"video_poll", "image_poll"}

\* C28 (as stated): the analysis request is not issued before every uploaded
\* artifact has been reported ACTIVE, and a readiness loop is left only when
\* ACTIVE is reported: every poll that does not report ACTIVE is followed by
\* another poll.
C28_LoopLeftOnlyWhenReady ==
    [][/\ ppc' = "analyze" => uploaded' \subseteq ready'
       /\ (Polling /\ ppc' # ppc) => reported' = "ACTIVE"]_vars

\* C28 (amended): the analysis request is not issued before every uploaded artifact
\* (the video and, when present, the still frame) has been reported ACTIVE;
\* a readiness loop goes on to the next step exactly when ACTIVE is reported,
\* every other reported state (FAILED included) is followed by another poll,
\* and the only other way out is an exception of the poll itself, which ends
\* get_match_stats without an analysis request.
C28_AnalysisOnlyWhenReady ==
    [][/\ ppc' = "analyze"
            => /\ "video" \in uploaded'
               /\ uploaded' \subseteq ready'
               /\ ("image" \in uploaded'
                     <=> video_files[file_index].frame_42)
       /\ ppc' = "image_poll" => "video" \in ready'
       /\ (Polling /\ ppc' \in {"image_poll", "analyze"} /\ ppc' # ppc)
            => reported' = "ACTIVE"
       /\ (Polling /\ reported' = "ACTIVE" /\ ppc' # "loop") => ppc' # ppc
       /\ (Polling /\ ppc' = ppc)
            => /\ reported' \in FileStates \ {"ACTIVE"}
               /\ polls' = polls + 1
       /\ (Polling /\ ppc' \notin {"video_poll", "image_poll", "analyze"})
            => /\ ppc' = "loop"
               /\ ~batch_log'[Len(batch_log')].analysed
               /\ batch_log'[Len(batch_log')].result = "false"]_vars

\* the video was reported ACTIVE; the still frame has been reported not
\* ready MaxPolls times, FAILED the last time, and is still being polled
C28_Witness ==
    /\ ppc = "image_poll"
    /\ ready = {"video"}
    /\ uploaded = {"video", "image"}
    /\ reported = "FAILED"
    /\ polls = MaxPolls

(***************************************************************************)
(* C29.  A frame whose scoring raises is given score 0 and the scan goes   *)
(* on: the step that decodes such a frame leaves the decode loop running,  *)
(* stores the frame with score 0 as the newest sample when its ordinal is  *)
(* a multiple of frame_skip_interval and stores nothing otherwise, and the *)
(* loop is left only when every frame of the video has been decoded.       *)
(***************************************************************************)
C29_ScoringErrorScoresZero ==
    [][/\ (xpc = "loop" /\ frame_count' # frame_count
           /\ frame_count' \in video.broken)
          => /\ xpc' = "loop"
             /\ frame_count' = frame_count + 1
             /\ IF frame_count' % frame_skip_interval = 0
                THEN /\ frames' # <<>>
                     /\ frames'[Len(frames')] = frame_count'
                     /\ scores'[Len(scores')] = 0
                     /\ Len(scores') = Len(frames')
                ELSE frames' = frames /\ scores' = scores
       /\ (xpc = "loop" /\ xpc' # "loop") => frame_count = video.n]_vars

\* a finished extraction that found a result screen in a video whose
\* window holds, before later samples, a frame whose scoring raised
C29_Witness ==
    /\ xpc = "done"
    /\ outcome = "ok"
    /\ frame_count = video.n
    /\ \E i \in 1..(Len(frames) - 1) :
          frames[i] \in video.broken /\ scores[i] = 0

(***************************************************************************)
(* C31.  A step that inserts a sample removes, when the size after the     *)
(* insertion exceeds the capacity, exactly min(50, size \div 4) of the     *)
(* oldest entries (size measured after the insertion) from the frame list  *)
(* and from the score list, once, and removes nothing otherwise; the two   *)
(* lists have the same length and the score at an index is the score of    *)
(* the frame at that index.                                                *)
(***************************************************************************)
C31_OneChunkFromBothLists ==
    [][(xpc = "loop" /\ frame_count' # frame_count
        /\ frame_count' % frame_skip_interval = 0)
       => LET size == Len(frames) + 1
              quarter == size \div 4
              removed == IF size > max_frames
                         THEN (IF quarter < chunk_cap THEN quarter
                               ELSE chunk_cap)
                         ELSE 0
          IN  /\ Len(frames') = size - removed
              /\ Len(scores') = Len(frames')
              /\ \A i \in 1..Len(frames') :
                    /\ frames'[i] = Append(frames, frame_count')[i + removed]
                    /\ scores'[i] = detect_game_end(video, frames'[i])]_vars

\* the insertion that first overflows a window of capacity 16 has removed
\* the 4 oldest entries of the 17 from both lists
C31_Witness ==
    /\ max_frames = 16
    /\ Inserted = 17
    /\ Len(frames) = 13
    /\ Len(scores) = 13
    /\ frames[1] = frame_skip_interval * 5
    /\ frames[13] = frame_skip_interval * 17

(***************************************************************************)
(* C32 (as stated).  The retry counter increases, and a backoff sleep      *)
(* follows, only when the chunk call of the current iteration failed with  *)
(* a transient error: an iteration whose chunk call returns without error  *)
(* and without a final response leaves the counter unchanged and goes back *)
(* to the loop head, whatever happened in earlier iterations.              *)
(***************************************************************************)
C32_RetryOnlyOnFailedChunk ==
    [][(/\ upc = "transferring"
        /\ Len(chunk_log') = Len(chunk_log) + 1
        /\ chunk_log'[Len(chunk_log')].kind = "progress")
       => (retry' = retry /\ upc' = "transferring")]_vars

(***************************************************************************)
(* C33 (as stated).  A call of upload_video whose transfer completed with  *)
(* a video id returns the locator of that video, whatever the playlist     *)
(* step did afterwards.                                                    *)
(***************************************************************************)
C33_CompletedUploadReturnsLocator ==
    (/\ upc = "done"
     /\ transfer_result # Null
     /\ "has_id" \in DOMAIN transfer_result
     /\ transfer_result.has_id)
    => video_url = Some(UrlOf(transfer_result.id))

(***************************************************************************)
(* C34.  The daily upload counter changes in two ways only: a chunk call   *)
(* that completes the transfer with a video id adds exactly 1, and the     *)
(* quota check of a call made on a date other than last_reset_date sets    *)
(* it to 0.  A step that ends a call without a locator (gated, failed      *)
(* authentication, non-transient error, retries exhausted, response with   *)
(* no id) leaves it unchanged, unless it is that quota check.              *)
(***************************************************************************)
C34_CounterChangesTwoWays ==
    [][/\ daily_upload_count' # daily_upload_count
          => \/ /\ upc = "transferring"
                /\ daily_upload_count' = daily_upload_count + 1
                /\ remote_videos' = remote_videos + 1
                /\ transfer_result' = [has_id |-> TRUE, id |-> remote_videos']
             \/ /\ upc = "pending"
                /\ job.filepath_exists
                /\ today # last_reset_date
                /\ daily_upload_count' = 0
                /\ last_reset_date' = today
       /\ (upc \in {"authenticating", "transferring", "retrying"}
           /\ upc' = "done" /\ video_url' = Null)
          => daily_upload_count' = daily_upload_count
       /\ (upc = "pending" /\ upc' = "done" /\ today = last_reset_date)
          => daily_upload_count' = daily_upload_count]_vars

\* after a completed transfer counted 1, a later call on the same date has
\* failed in its transfer and the counter still reads 1
C34_Witness ==
    /\ upc = "done"
    /\ video_url = Null
    /\ daily_upload_count = 1
    /\ remote_videos = 1
    /\ today = last_reset_date
    /\ transfer_result # Null
    /\ "raised" \in DOMAIN transfer_result

OutcomeCounters == {"already_uploaded", "successful", "failed", "skipped"}

SumOfCounters(s) == s.already_uploaded + s.successful + s.failed + s.skipped

(***************************************************************************)
(* C36.  Outside dry-run mode every file of BulkUploader.run adds 1 to     *)
(* exactly one of already_uploaded, successful, failed and skipped, and    *)
(* when the run is over the four add up to total_files; in dry-run mode a  *)
(* file whose name parses and which is not counted as already uploaded     *)
(* changes no counter.                                                     *)
(***************************************************************************)
C36_OneCounterPerFile ==
    [][/\ next_file' = next_file + 1
          => LET h == history'[Len(history')]
             IN  /\ ~dry_run
                    => /\ \E c \in OutcomeCounters :
                             /\ stats'[c] = stats[c] + 1
                             /\ \A d \in OutcomeCounters \ {c} :
                                   stats'[d] = stats[d]
                       /\ stats'.total_files = stats.total_files
                       /\ SumOfCounters(stats') = next_file
                 /\ (/\ dry_run
                     /\ h.parse = "parsed"
                     /\ stats'.already_uploaded = stats.already_uploaded)
                    => stats' = stats
       /\ (bpc' = "finished" /\ ~dry_run)
          => /\ stats'.total_files = Len(all_files')
             /\ SumOfCounters(stats') = stats'.total_files]_vars

\* a finished run, not dry, of two files that went to different counters,
\* one of them because process_video raised
C36_Witness ==
    /\ bpc = "finished"
    /\ ~dry_run
    /\ stats.total_files = 2
    /\ stats.failed = 1
    /\ stats.successful = 1
    /\ \E i \in 1..Len(history) :
          history[i].run = runs /\ history[i].parse = "raise"

(***************************************************************************)
(* C37.  Each file of process_all adds 1 to exactly one of                 *)
(* processed_count, skipped_count and failed_count: after the i-th file    *)
(* the three add up to i, and to the number of video files found when the  *)
(* loop is over; failed_count grows only for a file whose process_video    *)
(* call raised.                                                            *)
(***************************************************************************)
C37_OneCountPerFile ==
    [][/\ file_index' # file_index
          => /\ file_index' = file_index + 1
             /\ processed_count' + skipped_count' + failed_count' = file_index
             /\ \/ /\ processed_count' = processed_count + 1
                   /\ skipped_count' = skipped_count
                   /\ failed_count' = failed_count
                \/ /\ processed_count' = processed_count
                   /\ skipped_count' = skipped_count + 1
                   /\ failed_count' = failed_count
                \/ /\ processed_count' = processed_count
                   /\ skipped_count' = skipped_count
                   /\ failed_count' = failed_count + 1
       /\ file_index' = file_index
          => /\ processed_count' = processed_count
             /\ skipped_count' = skipped_count
             /\ failed_count' = failed_count
       /\ failed_count' # failed_count
          => /\ ppc = "loop"
             /\ video_files[file_index].stat = "raise"
       /\ ppc' = "finished"
          => processed_count' + skipped_count' + failed_count'
               = Len(video_files')]_vars

\* process_all is over with two files: one was processed and saved, the
\* other raised
C37_Witness ==
    /\ ppc = "finished"
    /\ Len(video_files) = 2
    /\ processed_count = 1
    /\ skipped_count = 0
    /\ failed_count = 1
    /\ matches_created = 1

\* the names the claim calls placeholders, one of each form
PlaceholderNames == {Name_Player1, Name_P2, Name_P_13}

\* the stats have no winner, a CPU participant or a placeholder name
RefusedOnParticipants ==
    \/ \A i \in DOMAIN save_stats : ~save_stats[i].has_won
    \/ \E i \in DOMAIN save_stats : save_stats[i].is_cpu
    \/ \E i \in DOMAIN save_stats : save_stats[i].player_name \in PlaceholderNames

NothingSaved ==
    /\ save_returned = Some(FALSE)
    /\ match_rows = 0
    /\ participant_rows = 0

C39_TransferTerminates ==
    /\ [](Len(chunk_log) <= MaxProgress + max_retries + 1)
    /\ (upc \in {"transferring", "retrying"}) ~> (upc \in {"playlist", "done"})

\* a transfer that made progress, met max_retries + 1 transient failures and
\* was given up
C39_Witness ==
    /\ upc = "done"
    /\ video_url = Null
    /\ retry = max_retries + 1
    /\ Progressed(chunk_log) = MaxProgress
    /\ Len(chunk_log) >= max_retries + 1

====
